---- MODULE Spec2Model ----
(***************************************************************************)
(* Gomoku search engine (src/gomoku_ai.py): board primitives, heuristic    *)
(* evaluation, move ordering, minimax / ai_search / ai_easy /              *)
(* suggest_moves, modelled as a step machine over the caller's board.      *)
(***************************************************************************)
EXTENDS Integers, Sequences, FiniteSets, TLC

BOARD_SIZE == 15
CENTER == 7

None == "None"
Colors == {"black", "white"}
Other(color) == IF color = "black" THEN "white" ELSE "black"

Idx == 0 .. (BOARD_SIZE - 1)

InBoard(r, c) == 0 <= r /\ r < BOARD_SIZE /\ 0 <= c /\ c < BOARD_SIZE

Max(a, b) == IF a >= b THEN a ELSE b
Min(a, b) == IF a <= b THEN a ELSE b

(* state[r][c] = color *)
Place(state, r, c, v) == [state EXCEPT ![r][c] = v]

(* ------------------------------ helpers -------------------------------- *)

(* every cell of the board, in row-major order *)
AllCells ==
    [k \in 1 .. (BOARD_SIZE * BOARD_SIZE) |->
        <<(k - 1) \div BOARD_SIZE, (k - 1) % BOARD_SIZE>>]

(* a faulty get_empty_cells: the emptiness test is missing *)
get_all_cells(state) == AllCells

get_empty_cells(state) ==
    LET empty(m) == state[m[1]][m[2]] = None
    IN SelectSeq(AllCells, empty)

neighbors_exist(state, r, c, dist) ==
    \E rr \in Max(0, r - dist) .. Min(BOARD_SIZE - 1, r + dist) :
        \E cc \in Max(0, c - dist) .. Min(BOARD_SIZE - 1, c + dist) :
            ~(rr = r /\ cc = c) /\ state[rr][cc] # None

(* a faulty candidate_moves: only the cells next to a stone are kept *)
candidate_moves_adjacent(state) ==
    LET empties == get_empty_cells(state)
        any_stone == \E r \in Idx, c \in Idx : state[r][c] # None
    IN IF ~any_stone THEN << <<CENTER, CENTER>> >>
       ELSE LET near(m) == neighbors_exist(state, m[1], m[2], 1)
                cand == SelectSeq(empties, near)
            IN IF cand # <<>> THEN cand ELSE empties

(* a faulty candidate_moves: with no candidate at all it falls back to the *)
(* centre, as it does on the empty board                                   *)
candidate_moves_center(state) ==
    LET near(m) == neighbors_exist(state, m[1], m[2], 2)
        cand == SelectSeq(get_empty_cells(state), near)
    IN IF cand # <<>> THEN cand ELSE << <<CENTER, CENTER>> >>

candidate_moves(state) ==
    LET empties == get_empty_cells(state)
        any_stone == \E r \in Idx, c \in Idx : state[r][c] # None
    IN IF ~any_stone THEN << <<CENTER, CENTER>> >>
       ELSE LET near(m) == neighbors_exist(state, m[1], m[2], 2)
                cand == SelectSeq(empties, near)
            IN IF cand # <<>> THEN cand ELSE empties

directions == << <<0, 1>>, <<1, 0>>, <<1, 1>>, <<1, -1>> >>

(* length of the run of color starting at (r, c) and walking by (dx, dy) *)
RECURSIVE RunLength(_, _, _, _, _, _)
RunLength(state, r, c, dx, dy, color) ==
    IF InBoard(r, c) /\ state[r][c] = color
    THEN 1 + RunLength(state, r + dx, c + dy, dx, dy, color)
    ELSE 0

(* a faulty count: the run behind (row, col) is left out *)
AxisCountForward(state, row, col, color, d) ==
    1 + RunLength(state, row + d[1], col + d[2], d[1], d[2], color)

AxisCount(state, row, col, color, d) ==
    1 + RunLength(state, row + d[1], col + d[2], d[1], d[2], color)
      + RunLength(state, row - d[1], col - d[2], 0 - d[1], 0 - d[2], color)

is_win_at(state, row, col, color) ==
    \E i \in 1 .. 4 : AxisCount(state, row, col, color, directions[i]) >= 5

(* try_move_is_win: the value it returns *)
try_move_is_win(state, r, c, color) ==
    is_win_at(Place(state, r, c, color), r, c, color)

(* a faulty try_move_is_win: the stone it tried stays on the board *)
try_move_state_keep(state, r, c, color) == Place(state, r, c, color)

(* try_move_is_win: the board it leaves behind (lines 61 and 63) *)
try_move_state(state, r, c, color) ==
    Place(Place(state, r, c, color), r, c, None)

RECURSIVE MaxAxis(_, _, _, _, _, _)
MaxAxis(state, row, col, color, i, max_count) ==
    IF i > 4 THEN max_count
    ELSE MaxAxis(state, row, col, color, i + 1,
                 Max(max_count, AxisCount(state, row, col, color, directions[i])))

(* seq[i] of a Python list of BOARD_SIZE items: an index from -BOARD_SIZE  *)
(* to -1 counts from the end, anything else outside the list raises        *)
(* IndexError                                                              *)
IndexOk(i) == 0 - BOARD_SIZE <= i /\ i < BOARD_SIZE

PyIndex(i) == IF i < 0 THEN i + BOARD_SIZE ELSE i

count_threat_level(state, row, col, color) ==
    IF state[PyIndex(row)][PyIndex(col)] # None THEN 0
    ELSE MaxAxis(state, row, col, color, 1, 0)

(* the cell just beyond the run that leaves (row, col) by (dx, dy) is an   *)
(* empty cell of the board                                                 *)
EndOpen(state, row, col, dx, dy, color) ==
    LET k == RunLength(state, row + dx, col + dy, dx, dy, color)
        r == row + (k + 1) * dx
        c == col + (k + 1) * dy
    IN InBoard(r, c) /\ state[r][c] = None

(* a faulty is_open_threat: both ends of the run have to be open *)
is_open_threat_both(state, row, col, color, min_count) ==
    IF state[row][col] # None THEN FALSE
    ELSE \E i \in 1 .. 4 :
            LET dx == directions[i][1]
                dy == directions[i][2]
                right_open == EndOpen(state, row, col, dx, dy, color)
                left_open == EndOpen(state, row, col, 0 - dx, 0 - dy, color)
            IN /\ AxisCount(state, row, col, color, directions[i]) >= min_count
               /\ (left_open /\ right_open)

is_open_threat(state, row, col, color, min_count) ==
    IF state[row][col] # None THEN FALSE
    ELSE \E i \in 1 .. 4 :
            LET dx == directions[i][1]
                dy == directions[i][2]
                right_open == EndOpen(state, row, col, dx, dy, color)
                left_open == EndOpen(state, row, col, 0 - dx, 0 - dy, color)
            IN /\ AxisCount(state, row, col, color, directions[i]) >= min_count
               /\ (left_open \/ right_open)

(* ------------------------- heuristic evaluation ------------------------ *)

W_FIVE == 100000
W_OPEN_FOUR == 10000
W_CLOSED_FOUR == 3000
W_OPEN_THREE == 1000
W_CLOSED_THREE == 200
W_OPEN_TWO == 50

(* the cells of diagonal d of each family that lie on the board, by row *)
Diag1(state, d) ==
    LET lo == Max(0, 0 - d)
        len == BOARD_SIZE - (IF d >= 0 THEN d ELSE 0 - d)
    IN [k \in 1 .. len |-> state[lo + k - 1][lo + k - 1 + d]]

Diag2(state, d) ==
    LET lo == Max(0, 0 - d)
        len == BOARD_SIZE - (IF d >= 0 THEN d ELSE 0 - d)
    IN [k \in 1 .. len |-> state[lo + k - 1][(BOARD_SIZE - 1) - (lo + k - 1) - d]]

RECURSIVE DiagLines(_, _, _)
DiagLines(state, d, acc) ==
    IF d >= BOARD_SIZE - 4 THEN acc
    ELSE LET diag1 == Diag1(state, d)
             diag2 == Diag2(state, d)
             a1 == IF Len(diag1) >= 5 THEN Append(acc, diag1) ELSE acc
             a2 == IF Len(diag2) >= 5 THEN Append(a1, diag2) ELSE a1
         IN DiagLines(state, d + 1, a2)

Lines(state) ==
    LET rows == [r \in 1 .. BOARD_SIZE |->
                    [c \in 1 .. BOARD_SIZE |-> state[r - 1][c - 1]]]
        cols == [c \in 1 .. BOARD_SIZE |->
                    [r \in 1 .. BOARD_SIZE |-> state[r - 1][c - 1]]]
    IN DiagLines(state, 0 - (BOARD_SIZE - 5), rows \o cols)

(* a faulty window score: a three is open with either neighbour empty *)
WindowScoreEitherThree(seq, stones, i) ==
    LET n == Len(seq)
        my_cnt == (IF stones[i + 1] = 1 THEN 1 ELSE 0) + (IF stones[i + 2] = 1 THEN 1 ELSE 0)
                  + (IF stones[i + 3] = 1 THEN 1 ELSE 0) + (IF stones[i + 4] = 1 THEN 1 ELSE 0)
                  + (IF stones[i + 5] = 1 THEN 1 ELSE 0)
        opp_cnt == (IF stones[i + 1] = -1 THEN 1 ELSE 0) + (IF stones[i + 2] = -1 THEN 1 ELSE 0)
                  + (IF stones[i + 3] = -1 THEN 1 ELSE 0) + (IF stones[i + 4] = -1 THEN 1 ELSE 0)
                  + (IF stones[i + 5] = -1 THEN 1 ELSE 0)
        empty_cnt == 5 - my_cnt - opp_cnt
        left_open == i > 0 /\ seq[i] = None
        right_open == i + 5 < n /\ seq[i + 6] = None
    IN IF opp_cnt # 0 THEN 0
       ELSE IF my_cnt = 5 THEN W_FIVE
       ELSE IF my_cnt = 4 /\ empty_cnt = 1
            THEN (IF left_open \/ right_open THEN W_OPEN_FOUR ELSE W_CLOSED_FOUR)
       ELSE IF my_cnt = 3 /\ empty_cnt = 2
            THEN (IF left_open \/ right_open THEN W_OPEN_THREE ELSE W_CLOSED_THREE)
       ELSE IF my_cnt = 2 /\ empty_cnt = 3
            THEN (IF left_open \/ right_open THEN W_OPEN_TWO ELSE 0)
       ELSE 0

(* the contribution of the window seq[i .. i+4] (0-based, as in the code) *)
WindowScore(seq, stones, i) ==
    LET n == Len(seq)
        my_cnt == (IF stones[i + 1] = 1 THEN 1 ELSE 0) + (IF stones[i + 2] = 1 THEN 1 ELSE 0)
                  + (IF stones[i + 3] = 1 THEN 1 ELSE 0) + (IF stones[i + 4] = 1 THEN 1 ELSE 0)
                  + (IF stones[i + 5] = 1 THEN 1 ELSE 0)
        opp_cnt == (IF stones[i + 1] = -1 THEN 1 ELSE 0) + (IF stones[i + 2] = -1 THEN 1 ELSE 0)
                  + (IF stones[i + 3] = -1 THEN 1 ELSE 0) + (IF stones[i + 4] = -1 THEN 1 ELSE 0)
                  + (IF stones[i + 5] = -1 THEN 1 ELSE 0)
        empty_cnt == 5 - my_cnt - opp_cnt
        left_open == i > 0 /\ seq[i] = None
        right_open == i + 5 < n /\ seq[i + 6] = None
    IN IF opp_cnt # 0 THEN 0
       ELSE IF my_cnt = 5 THEN W_FIVE
       ELSE IF my_cnt = 4 /\ empty_cnt = 1
            THEN (IF left_open \/ right_open THEN W_OPEN_FOUR ELSE W_CLOSED_FOUR)
       ELSE IF my_cnt = 3 /\ empty_cnt = 2
            THEN (IF left_open /\ right_open THEN W_OPEN_THREE ELSE W_CLOSED_THREE)
       ELSE IF my_cnt = 2 /\ empty_cnt = 3
            THEN (IF left_open \/ right_open THEN W_OPEN_TWO ELSE 0)
       ELSE 0

RECURSIVE SumWindows(_, _, _)
SumWindows(seq, stones, i) ==
    IF i >= Len(seq) - 4 THEN 0
    ELSE WindowScore(seq, stones, i) + SumWindows(seq, stones, i + 1)

(* A line holding no stone of color scores 0 in the code (every branch of  *)
(* lines 188-200 that adds to s needs my_cnt >= 2); it is answered at once. *)
seq_score(seq, color) ==
    IF \A k \in 1 .. Len(seq) : seq[k] # color THEN 0 ELSE
    LET stones == [k \in 1 .. Len(seq) |->
                      IF seq[k] = color THEN 1 ELSE IF seq[k] = None THEN 0 ELSE -1]
    IN SumWindows(seq, stones, 0)

RECURSIVE SumLines(_, _, _)
SumLines(lines, color, k) ==
    IF k > Len(lines) THEN 0
    ELSE seq_score(lines[k], color) + SumLines(lines, color, k + 1)

score_color(state, color) == SumLines(Lines(state), color, 1)

(* a faulty evaluate: the opponent's patterns are not subtracted *)
evaluate_own(state, perspective_color) == score_color(state, perspective_color)

evaluate(state, perspective_color) ==
    LET opp == Other(perspective_color)
    IN score_color(state, perspective_color) - score_color(state, opp)

(* ----------------------- move ordering and search ---------------------- *)

INF == 1000000000
WIN_SCORE == 100000

Contains(seq, m) == \E k \in 1 .. Len(seq) : seq[k] = m

(* try_move_is_win is invoked on a cell that holds a stone *)
TriesOccupied(state, moves) ==
    \E k \in 1 .. Len(moves) : state[moves[k][1]][moves[k][2]] # None

(* the board after try_move_is_win has run for color on each of moves:    *)
(* a call touches its own cell only, so each tried cell ends as its call   *)
(* leaves it and every other cell stays                                    *)
TryAll(state, moves, color) ==
    IF \A k \in 1 .. Len(moves) :
           LET r == moves[k][1]
               c == moves[k][2]
           IN try_move_state(state, r, c, color)[r][c] = state[r][c]
    THEN state
    ELSE [r \in Idx |-> [c \in Idx |->
             IF Contains(moves, <<r, c>>)
             THEN try_move_state(state, r, c, color)[r][c]
             ELSE state[r][c]]]

(* a faulty ordered_candidates: the blocks are listed ahead of the wins *)
ordered_candidates_blocks_first(state, ai_color) ==
    LET opp == Other(ai_color)
        cm == candidate_moves(state)
        isWin(m) == try_move_is_win(state, m[1], m[2], ai_color)
        isBlock(m) == ~isWin(m) /\ try_move_is_win(state, m[1], m[2], opp)
        isDef(m) == ~isWin(m) /\ ~isBlock(m)
                    /\ is_open_threat(state, m[1], m[2], opp, 3)
        isRest(m) == ~isWin(m) /\ ~isBlock(m) /\ ~isDef(m)
    IN [ret |-> SelectSeq(cm, isBlock) \o SelectSeq(cm, isWin)
                    \o SelectSeq(cm, isDef) \o SelectSeq(cm, isRest),
        state |-> state,
        bad |-> FALSE]

(* ordered_candidates: .ret is the list returned, .state the board left    *)
(* behind by the calls of try_move_is_win, .bad whether one of them was    *)
(* made on an occupied cell. The if/elif chain of lines 217-225 sends each *)
(* candidate to the first tier whose test it passes.                       *)
ordered_candidates(state, ai_color) ==
    LET opp == Other(ai_color)
        cm == candidate_moves(state)
        isWin(m) == try_move_is_win(state, m[1], m[2], ai_color)
        isBlock(m) == ~isWin(m) /\ try_move_is_win(state, m[1], m[2], opp)
        isDef(m) == ~isWin(m) /\ ~isBlock(m)
                    /\ is_open_threat(state, m[1], m[2], opp, 3)
        isRest(m) == ~isWin(m) /\ ~isBlock(m) /\ ~isDef(m)
        wins == SelectSeq(cm, isWin)
        blocks == SelectSeq(cm, isBlock)
        defensive == SelectSeq(cm, isDef)
        rest == SelectSeq(cm, isRest)
    IN [ret |-> wins \o blocks \o defensive \o rest,
        state |-> TryAll(state, cm, ai_color),
        bad |-> TriesOccupied(state, cm)]

(* a faulty cap: the ordered list is cut to max_candidates entries *)
CapPrefix(state, oc, mover, opp, max_candidates) ==
    IF max_candidates = <<>> THEN oc
    ELSE SubSeq(oc, 1, Min(max_candidates[1], Len(oc)))

(* a faulty cap: one slot fewer is left to the other candidates *)
CapOneLess(state, oc, mover, opp, max_candidates) ==
    IF max_candidates = <<>> THEN oc
    ELSE LET isWin(m) == try_move_is_win(state, m[1], m[2], mover)
             wins == SelectSeq(oc, isWin)
             isBlock(m) == ~Contains(wins, m)
                           /\ try_move_is_win(state, m[1], m[2], opp)
             blocks == SelectSeq(oc, isBlock)
             isDef(m) == ~Contains(wins, m) /\ ~Contains(blocks, m)
                         /\ is_open_threat(state, m[1], m[2], opp, 3)
             defensive == SelectSeq(oc, isDef)
             isRest(m) == ~Contains(wins, m) /\ ~Contains(blocks, m)
                          /\ ~Contains(defensive, m)
             rest == SelectSeq(oc, isRest)
             remaining_slots ==
                 Max(0, max_candidates[1] - 1 - Len(wins) - Len(blocks) - Len(defensive))
         IN wins \o blocks \o defensive
                 \o SubSeq(rest, 1, Min(remaining_slots, Len(rest)))

(* the capping block shared by ai_search (304-311), minimax (238-245,      *)
(* 264-270) and suggest_moves (389-397): max_candidates is <<>> for None   *)
(* and <<n>> for the integer n                                             *)
CapCandidates(state, oc, mover, opp, max_candidates) ==
    IF max_candidates = <<>> THEN oc
    ELSE LET isWin(m) == try_move_is_win(state, m[1], m[2], mover)
             wins == SelectSeq(oc, isWin)
             isBlock(m) == ~Contains(wins, m)
                           /\ try_move_is_win(state, m[1], m[2], opp)
             blocks == SelectSeq(oc, isBlock)
             isDef(m) == ~Contains(wins, m) /\ ~Contains(blocks, m)
                         /\ is_open_threat(state, m[1], m[2], opp, 3)
             defensive == SelectSeq(oc, isDef)
             isRest(m) == ~Contains(wins, m) /\ ~Contains(blocks, m)
                          /\ ~Contains(defensive, m)
             rest == SelectSeq(oc, isRest)
             remaining_slots ==
                 Max(0, max_candidates[1] - Len(wins) - Len(blocks) - Len(defensive))
         IN wins \o blocks \o defensive
                 \o SubSeq(rest, 1, Min(remaining_slots, Len(rest)))

(* ------------------------------- the inputs --------------------------- *)

(* bounds of the model *)
MaxDepth == 2
MaxCap == 2
MaxHoles == 3
MaxStack == 5
MaxTopK == 2

(* the default of top_k *)
TOP_K == 6

MkBoard(blacks, whites) ==
    [r \in Idx |-> [c \in Idx |->
        IF <<r, c>> \in blacks THEN "black"
        ELSE IF <<r, c>> \in whites THEN "white" ELSE None]]

EmptyBoard == MkBoard({}, {})

(* a full board without five in a row: 113 black and 112 white stones *)
Pattern(r, c) == IF ((c + 2 * r) \div 2) % 2 = 0 THEN "black" ELSE "white"

NearFull(holes, flips) ==
    [r \in Idx |-> [c \in Idx |->
        IF <<r, c>> \in holes THEN None
        ELSE IF <<r, c>> \in flips THEN Other(Pattern(r, c))
        ELSE Pattern(r, c)]]

FullBoard == NearFull({}, {})

(* near-full boards: the first k cells of HoleSeq are empty, and the cells *)
(* of HoleFlips carry the other colour so that both sides have immediate   *)
(* wins, blocks and open threats among the holes                           *)
HoleSeq == << <<8, 5>>, <<8, 8>>, <<9, 8>>, <<7, 9>> >>

HoleFlips == {<<6, 5>>, <<7, 8>>}

HoleBoard(k) == NearFull({HoleSeq[j] : j \in 1 .. k}, HoleFlips)

(* black has four in a row on the top edge (it wins at (0, 14)) and three  *)
(* broken threes that cross at the empty centre                            *)
StarBoardBlack ==
    {<<0, 10>>, <<0, 11>>, <<0, 12>>, <<0, 13>>, <<4, 4>>, <<4, 7>>,
     <<5, 5>>, <<5, 7>>, <<6, 6>>, <<6, 7>>, <<7, 4>>, <<7, 5>>, <<7, 6>>,
     <<7, 9>>, <<7, 10>>, <<7, 11>>, <<9, 7>>, <<9, 9>>, <<10, 7>>,
     <<10, 10>>, <<11, 7>>, <<11, 11>>}

StarBoardWhite ==
    {<<0, 9>>, <<1, 13>>, <<1, 14>>, <<2, 0>>, <<2, 1>>, <<3, 0>>,
     <<3, 2>>, <<10, 0>>, <<10, 3>>, <<11, 0>>, <<11, 1>>, <<11, 4>>,
     <<11, 5>>, <<12, 1>>, <<12, 2>>, <<12, 3>>, <<13, 1>>, <<13, 2>>,
     <<13, 4>>, <<14, 0>>, <<14, 2>>, <<14, 3>>}

StarBoard == MkBoard(StarBoardBlack, StarBoardWhite)

(* white has four in a row with one open end, black an open three *)
TacticBoardBlack == {<<4, 1>>, <<4, 2>>, <<4, 3>>, <<5, 0>>, <<6, 3>>}

TacticBoardWhite == {<<5, 1>>, <<5, 2>>, <<5, 3>>, <<5, 4>>}

TacticBoard == MkBoard(TacticBoardBlack, TacticBoardWhite)

CornerBoard == MkBoard({<<0, 0>>}, {})

(* both sides have four in a row, white a split three besides *)
MixedBoard ==
    MkBoard(TacticBoardBlack \cup {<<4, 4>>},
            TacticBoardWhite \cup {<<9, 9>>, <<9, 11>>})

(* a near-full board on which black's only forcing move, (8, 6), leads to  *)
(* positions where black has no forcing move left                          *)
SentinelBoard == NearFull({<<8, 6>>, <<5, 9>>, <<7, 7>>}, {<<7, 5>>})

(* white wins at (1, 5), which is the tenth candidate cell after a black   *)
(* move in row 0 left of (0, 8) and the eleventh after any other move      *)
ReplyBoard ==
    MkBoard({<<1, 0>>, <<0, 8>>}, {<<1, 1>>, <<1, 2>>, <<1, 3>>, <<1, 4>>})

(* a board with one empty cell, which is no forcing move for either side   *)
LastCellBoard == NearFull({<<8, 5>>}, {})

(* ------------------------------ the machine ---------------------------- *)
(* state    the caller's board, mutated in place by the engine             *)
(* state0   the board as it was when the call started                      *)
(* call     the arguments of the call in progress                          *)
(* stack    the activation records, the innermost last                     *)
(* cutoff   an alpha-beta break has been taken during the call             *)
(* bad_try  try_move_is_win has been invoked on an occupied cell           *)
(* prev     what the earlier calls on this board returned, oldest first     *)
(* ui       the single-player page that owns the board (single_player.py)  *)
VARIABLES state, state0, call, stack, cutoff, bad_try, prev, ui

vars == <<state, state0, call, stack, cutoff, bad_try, prev, ui>>

Top == stack[Len(stack)]
Pop(s) == SubSeq(s, 1, Len(s) - 1)
SetTop(s, f) == [s EXCEPT ![Len(s)] = f]

(* the activation of minimax(state, depth, maximizing, ..., alpha, beta);  *)
(* entry records the board the activation was handed                       *)
MinimaxFrame(depth, maximizing, alpha, beta, board) ==
    [fn |-> "minimax", pc |-> "enter", depth |-> depth,
     maximizing |-> maximizing, alpha |-> alpha, beta |-> beta,
     value |-> 0, oc |-> <<>>, i |-> 1, val |-> 0, entry |-> board]

(* the arguments of a call of ai_search *)
Call(fn, ai_color, depth, use_ab, max_candidates) ==
    [fn |-> fn, ai_color |-> ai_color, opp_color |-> Other(ai_color),
     depth |-> depth, use_ab |-> use_ab, max_candidates |-> max_candidates]

(* the arguments of a call of suggest_moves; its Hard branch searches with *)
(* depth = 2 (line 438) and use_ab = True (line 448)                       *)
SuggestCall(player_color, difficulty, top_k, max_candidates) ==
    [fn |-> "suggest_moves", ai_color |-> player_color,
     opp_color |-> Other(player_color), depth |-> 2, use_ab |-> TRUE,
     max_candidates |-> max_candidates, difficulty |-> difficulty,
     top_k |-> top_k]

(* the arguments of a call of ai_easy or ordered_candidates *)
PlainCall(fn, ai_color) ==
    [fn |-> fn, ai_color |-> ai_color, opp_color |-> Other(ai_color)]

AiSearchFrame(board) ==
    [fn |-> "ai_search", pc |-> "enter", oc |-> <<>>, i |-> 1,
     alpha |-> 0 - INF, beta |-> INF, best_move |-> <<>>,
     best_score |-> 0 - INF, val |-> 0, result |-> <<>>, entry |-> board,
     vals |-> <<>>]

SuggestFrame(board) ==
    [fn |-> "suggest_moves", pc |-> "enter", wins |-> <<>>, blocks |-> <<>>,
     defensive |-> <<>>, others |-> <<>>, oc |-> <<>>, i |-> 1, val |-> 0,
     my_eval |-> 0, opp_best_threat |-> 0 - INF, replies |-> <<>>, j |-> 1,
     alpha |-> 0 - INF, beta |-> INF, result |-> <<>>, entry |-> board]

PlainFrame(fn, board) ==
    [fn |-> fn, pc |-> "enter", result |-> <<>>, entry |-> board]

FrameFor(fn, board) ==
    IF fn = "ai_search" THEN AiSearchFrame(board)
    ELSE IF fn = "suggest_moves" THEN SuggestFrame(board)
    ELSE PlainFrame(fn, board)

(* return v: the callee's record is dropped and the caller resumes after   *)
(* its call with v in hand                                                 *)
ReturnTo(s, v) ==
    LET rest == Pop(s)
    IN [rest EXCEPT ![Len(rest)] = [@ EXCEPT !.val = v, !.pc = "undo"]]

Running(fn, pc) == stack # <<>> /\ Top.fn = fn /\ Top.pc = pc

(* the loop `for r, c in oc` is over: by exhaustion or by break *)
LoopOver(fn) ==
    /\ stack # <<>>
    /\ Top.fn = fn
    /\ \/ Top.pc = "ret"
       \/ Top.pc = "loop" /\ Top.i > Len(Top.oc)

(* minimax, lines 231-245 and 262-270: the leaf test, then the ordered and *)
(* capped candidates of the side to move                                   *)
MinimaxEnter ==
    /\ Running("minimax", "enter")
    /\ LET f == Top
           cand == candidate_moves(state)
           mover == IF f.maximizing THEN call.ai_color ELSE call.opp_color
           opp == IF f.maximizing THEN call.opp_color ELSE call.ai_color
           o == ordered_candidates(state, mover)
       IN IF f.depth = 0 \/ cand = <<>>
          THEN /\ stack' = ReturnTo(stack, evaluate(state, call.ai_color))
               /\ UNCHANGED <<state, bad_try, ui>>
          ELSE /\ stack' = SetTop(stack,
                     [f EXCEPT !.pc = "loop",
                               !.value = IF f.maximizing THEN 0 - INF ELSE INF,
                               !.oc = CapCandidates(o.state, o.ret, mover, opp,
                                                    call.max_candidates),
                               !.i = 1])
               /\ state' = IF call.max_candidates = <<>> THEN o.state
                           ELSE TryAll(o.state, o.ret, mover)
               /\ bad_try' = (bad_try \/ o.bad
                              \/ (call.max_candidates # <<>>
                                  /\ TriesOccupied(o.state, o.ret)))
    /\ UNCHANGED <<state0, call, cutoff, prev, ui>>

(* a faulty minimax: a win is scored +100000 whoever moves *)
MinimaxPlaceSameSign ==
    /\ Running("minimax", "loop")
    /\ Top.i <= Len(Top.oc)
    /\ LET f == Top
           r == f.oc[f.i][1]
           c == f.oc[f.i][2]
           mover == IF f.maximizing THEN call.ai_color ELSE call.opp_color
           placed == Place(state, r, c, mover)
       IN /\ state' = placed
          /\ IF is_win_at(placed, r, c, mover)
             THEN stack' = SetTop(stack,
                      [f EXCEPT !.pc = "undo", !.val = WIN_SCORE])
             ELSE /\ Len(stack) < MaxStack
                  /\ stack' = Append(SetTop(stack, [f EXCEPT !.pc = "wait"]),
                                     MinimaxFrame(f.depth - 1, ~f.maximizing,
                                                  f.alpha, f.beta, placed))
    /\ UNCHANGED <<state0, call, cutoff, bad_try, prev, ui>>

(* a faulty minimax: the recursive call is given the same depth *)
MinimaxPlaceSameDepth ==
    /\ Running("minimax", "loop")
    /\ Top.i <= Len(Top.oc)
    /\ LET f == Top
           r == f.oc[f.i][1]
           c == f.oc[f.i][2]
           mover == IF f.maximizing THEN call.ai_color ELSE call.opp_color
           placed == Place(state, r, c, mover)
       IN /\ state' = placed
          /\ IF is_win_at(placed, r, c, mover)
             THEN stack' = SetTop(stack,
                      [f EXCEPT !.pc = "undo",
                                !.val = IF f.maximizing THEN WIN_SCORE
                                        ELSE 0 - WIN_SCORE])
             ELSE /\ Len(stack) < MaxStack
                  /\ stack' = Append(SetTop(stack, [f EXCEPT !.pc = "wait"]),
                                     MinimaxFrame(f.depth, ~f.maximizing,
                                                  f.alpha, f.beta, placed))
    /\ UNCHANGED <<state0, call, cutoff, bad_try, prev, ui>>

(* lines 247-251 and 272-276: place the stone; a win is scored at once,    *)
(* anything else by the recursive call                                     *)
MinimaxPlace ==
    /\ Running("minimax", "loop")
    /\ Top.i <= Len(Top.oc)
    /\ LET f == Top
           r == f.oc[f.i][1]
           c == f.oc[f.i][2]
           mover == IF f.maximizing THEN call.ai_color ELSE call.opp_color
           placed == Place(state, r, c, mover)
       IN /\ state' = placed
          /\ IF is_win_at(placed, r, c, mover)
             THEN stack' = SetTop(stack,
                      [f EXCEPT !.pc = "undo",
                                !.val = IF f.maximizing THEN WIN_SCORE
                                        ELSE 0 - WIN_SCORE])
             ELSE /\ Len(stack) < MaxStack
                  /\ stack' = Append(SetTop(stack, [f EXCEPT !.pc = "wait"]),
                                     MinimaxFrame(f.depth - 1, ~f.maximizing,
                                                  f.alpha, f.beta, placed))
    /\ UNCHANGED <<state0, call, cutoff, bad_try, prev, ui>>

(* a faulty minimax: the cutoff is taken before the stone is removed *)
MinimaxUndoBreakFirst ==
    /\ Running("minimax", "undo")
    /\ LET f == Top
           r == f.oc[f.i][1]
           c == f.oc[f.i][2]
           value == IF f.maximizing
                    THEN (IF f.val > f.value THEN f.val ELSE f.value)
                    ELSE (IF f.val < f.value THEN f.val ELSE f.value)
           alpha == IF call.use_ab /\ f.maximizing /\ value > f.alpha
                    THEN value ELSE f.alpha
           beta == IF call.use_ab /\ ~f.maximizing /\ value < f.beta
                   THEN value ELSE f.beta
           break == call.use_ab /\ alpha >= beta
       IN /\ state' = IF break THEN state ELSE Place(state, r, c, None)
          /\ stack' = SetTop(stack,
                 [f EXCEPT !.value = value, !.alpha = alpha, !.beta = beta,
                           !.i = IF break THEN f.i ELSE f.i + 1,
                           !.pc = IF break THEN "ret" ELSE "loop"])
          /\ cutoff' = (cutoff \/ break)
    /\ UNCHANGED <<state0, call, bad_try, prev, ui>>

(* a faulty minimax: the minimizing branch raises alpha as the maximizing  *)
(* branch does, besides lowering beta                                      *)
MinimaxUndoAlphaInMin ==
    /\ Running("minimax", "undo")
    /\ LET f == Top
           r == f.oc[f.i][1]
           c == f.oc[f.i][2]
           value == IF f.maximizing
                    THEN (IF f.val > f.value THEN f.val ELSE f.value)
                    ELSE (IF f.val < f.value THEN f.val ELSE f.value)
           alpha == IF call.use_ab /\ value > f.alpha
                    THEN value ELSE f.alpha
           beta == IF call.use_ab /\ ~f.maximizing /\ value < f.beta
                   THEN value ELSE f.beta
           break == call.use_ab /\ alpha >= beta
       IN /\ state' = Place(state, r, c, None)
          /\ stack' = SetTop(stack,
                 [f EXCEPT !.value = value, !.alpha = alpha, !.beta = beta,
                           !.i = IF break THEN f.i ELSE f.i + 1,
                           !.pc = IF break THEN "ret" ELSE "loop"])
          /\ cutoff' = (cutoff \/ break)
    /\ UNCHANGED <<state0, call, bad_try, prev, ui>>

(* lines 252-259 and 277-284: undo the stone, fold the value in, cut off *)
MinimaxUndo ==
    /\ Running("minimax", "undo")
    /\ LET f == Top
           r == f.oc[f.i][1]
           c == f.oc[f.i][2]
           value == IF f.maximizing
                    THEN (IF f.val > f.value THEN f.val ELSE f.value)
                    ELSE (IF f.val < f.value THEN f.val ELSE f.value)
           alpha == IF call.use_ab /\ f.maximizing /\ value > f.alpha
                    THEN value ELSE f.alpha
           beta == IF call.use_ab /\ ~f.maximizing /\ value < f.beta
                   THEN value ELSE f.beta
           break == call.use_ab /\ alpha >= beta
       IN /\ state' = Place(state, r, c, None)
          /\ stack' = SetTop(stack,
                 [f EXCEPT !.value = value, !.alpha = alpha, !.beta = beta,
                           !.i = IF break THEN f.i ELSE f.i + 1,
                           !.pc = IF break THEN "ret" ELSE "loop"])
          /\ cutoff' = (cutoff \/ break)
    /\ UNCHANGED <<state0, call, bad_try, prev, ui>>

(* lines 260 and 285: return value *)
MinimaxReturn ==
    /\ LoopOver("minimax")
    /\ stack' = ReturnTo(stack, Top.value)
    /\ UNCHANGED <<state, state0, call, cutoff, bad_try, prev, ui>>

(* ai_search, lines 289-312: the ordered candidates, the two debug lists   *)
(* and the cap                                                             *)
AiSearchEnter ==
    /\ Running("ai_search", "enter")
    /\ LET o == ordered_candidates(state, call.ai_color)
           after == TryAll(o.state, o.ret, call.opp_color)
       IN /\ stack' = SetTop(stack,
                 [Top EXCEPT !.pc = "loop",
                             !.oc = CapCandidates(after, o.ret, call.ai_color,
                                                  call.opp_color,
                                                  call.max_candidates),
                             !.i = 1])
          /\ state' = after
          /\ bad_try' = (bad_try \/ o.bad \/ TriesOccupied(o.state, o.ret))
    /\ UNCHANGED <<state0, call, cutoff, prev, ui>>

(* lines 315-316: place the root move and search the reply *)
AiSearchPlace ==
    /\ Running("ai_search", "loop")
    /\ Top.i <= Len(Top.oc)
    /\ Len(stack) < MaxStack
    /\ LET f == Top
           placed == Place(state, f.oc[f.i][1], f.oc[f.i][2], call.ai_color)
       IN /\ state' = placed
          /\ stack' = Append(SetTop(stack, [f EXCEPT !.pc = "wait"]),
                             MinimaxFrame(call.depth - 1, FALSE, f.alpha, f.beta,
                                          placed))
    /\ UNCHANGED <<state0, call, cutoff, bad_try, prev, ui>>

(* lines 317-325: undo the root move, keep the strictly better score;     *)
(* vals records the scores of the root moves examined so far               *)
AiSearchUndo ==
    /\ Running("ai_search", "undo")
    /\ LET f == Top
           better == f.val > f.best_score
           best_score == IF better THEN f.val ELSE f.best_score
           alpha == IF call.use_ab /\ best_score > f.alpha
                    THEN best_score ELSE f.alpha
           break == call.use_ab /\ alpha >= f.beta
       IN /\ state' = Place(state, f.oc[f.i][1], f.oc[f.i][2], None)
          /\ stack' = SetTop(stack,
                 [f EXCEPT !.best_score = best_score,
                           !.best_move = IF better THEN f.oc[f.i] ELSE @,
                           !.vals = Append(@, f.val),
                           !.alpha = alpha,
                           !.i = IF break THEN f.i ELSE f.i + 1,
                           !.pc = IF break THEN "ret" ELSE "loop"])
          /\ cutoff' = (cutoff \/ break)
    /\ UNCHANGED <<state0, call, bad_try, prev, ui>>

(* lines 328-331: the debug probe of the chosen move, then return it;      *)
(* best_move is <<>> for None                                              *)
AiSearchReturn ==
    /\ LoopOver("ai_search")
    /\ LET f == Top
           probe == IF f.best_move = <<>> THEN <<>> ELSE <<f.best_move>>
       IN /\ state' = TryAll(state, probe, call.opp_color)
          /\ bad_try' = (bad_try \/ TriesOccupied(state, probe))
          /\ stack' = SetTop(stack, [f EXCEPT !.pc = "done", !.result = f.best_move])
    /\ UNCHANGED <<state0, call, cutoff, prev, ui>>

(* what a finished call of ai_search hands back, with the pruning flag it *)
(* ran under                                                               *)
Outcome ==
    [move |-> Top.result, score |-> Top.best_score, use_ab |-> call.use_ab]

(* the caller runs the same search again with alpha-beta pruning switched *)
(* on, on the board the first search left behind                           *)
AiSearchAgain ==
    /\ Running("ai_search", "done")
    /\ ~call.use_ab
    /\ prev = <<>>
    /\ prev' = <<Outcome>>
    /\ call' = [call EXCEPT !.use_ab = TRUE]
    /\ state0' = state
    /\ stack' = <<AiSearchFrame(state)>>
    /\ cutoff' = FALSE
    /\ UNCHANGED <<state, bad_try, ui>>

(* the caller calls ai_search a second time with the very same arguments, *)
(* on the board the call before left behind                                *)
AiSearchRepeat ==
    /\ Running("ai_search", "done")
    /\ Len(prev) < 2
    /\ prev # <<>> => prev[Len(prev)].use_ab # call.use_ab
    /\ prev' = Append(prev, Outcome)
    /\ state0' = state
    /\ stack' = <<AiSearchFrame(state)>>
    /\ cutoff' = FALSE
    /\ UNCHANGED <<state, call, bad_try, ui>>

(* ---------------------------- ai_easy (334-346) ------------------------ *)

(* the cells of seq up to and including the first one equal to m *)
UpTo(seq, m) ==
    SubSeq(seq, 1, CHOOSE k \in 1 .. Len(seq) : seq[k] = m /\ \A j \in 1 .. (k - 1) : seq[j] # m)

(* a faulty ai_easy: the block is looked for before the win *)
AiEasyBlockFirst ==
    /\ Running("ai_easy", "enter")
    /\ LET cm == candidate_moves(state)
           isWin(m) == try_move_is_win(state, m[1], m[2], call.ai_color)
           isBlock(m) == try_move_is_win(state, m[1], m[2], call.opp_color)
           wins == SelectSeq(cm, isWin)
           blocks == SelectSeq(cm, isBlock)
           choices == IF blocks # <<>> THEN {blocks[1]}
                      ELSE IF wins # <<>> THEN {wins[1]}
                      ELSE IF cm # <<>> THEN {cm[k] : k \in 1 .. Len(cm)}
                      ELSE {<<>>}
       IN /\ \E m \in choices :
                stack' = SetTop(stack, [Top EXCEPT !.pc = "done", !.result = m])
          /\ state' = TryAll(state, cm, call.ai_color)
          /\ bad_try' = (bad_try \/ TriesOccupied(state, cm))
    /\ UNCHANGED <<state0, call, cutoff, prev, ui>>

(* the first immediate win, else the first block, else random.choice(cand) *)
(* (any candidate), else None                                              *)
AiEasy ==
    /\ Running("ai_easy", "enter")
    /\ LET cm == candidate_moves(state)
           isWin(m) == try_move_is_win(state, m[1], m[2], call.ai_color)
           isBlock(m) == try_move_is_win(state, m[1], m[2], call.opp_color)
           wins == SelectSeq(cm, isWin)
           blocks == SelectSeq(cm, isBlock)
           tried == IF wins # <<>> THEN UpTo(cm, wins[1]) ELSE cm
           choices == IF wins # <<>> THEN {wins[1]}
                      ELSE IF blocks # <<>> THEN {blocks[1]}
                      ELSE IF cm # <<>> THEN {cm[k] : k \in 1 .. Len(cm)}
                      ELSE {<<>>}
       IN /\ \E m \in choices :
                stack' = SetTop(stack, [Top EXCEPT !.pc = "done", !.result = m])
          /\ state' = TryAll(state, tried, call.ai_color)
          /\ bad_try' = (bad_try \/ TriesOccupied(state, tried))
    /\ UNCHANGED <<state0, call, cutoff, prev, ui>>

(* a direct call of ordered_candidates (209-227) *)
OrderedCandidatesCall ==
    /\ Running("ordered_candidates", "enter")
    /\ LET o == ordered_candidates(state, call.ai_color)
       IN /\ stack' = SetTop(stack, [Top EXCEPT !.pc = "done", !.result = o.ret])
          /\ state' = o.state
          /\ bad_try' = (bad_try \/ o.bad)
    /\ UNCHANGED <<state0, call, cutoff, prev, ui>>

(* ------------------------- suggest_moves (350-452) --------------------- *)

(* seq[:k] *)
Prefix(seq, k) ==
    IF k >= 0 THEN SubSeq(seq, 1, Min(k, Len(seq)))
    ELSE SubSeq(seq, 1, Max(0, Len(seq) + k))

(* others.sort(key=lambda x: x[2], reverse=True): descending by score,     *)
(* entries of equal score keeping their order                              *)
SortByScore(others) ==
    LET n == Len(others)
        rank(j) == 1 + Cardinality({i \in 1 .. n : others[i][3] > others[j][3]})
                     + Cardinality({i \in 1 .. (j - 1) : others[i][3] = others[j][3]})
    IN [k \in 1 .. n |-> others[CHOOSE j \in 1 .. n : rank(j) = k]]

(* any((r == rr and c == cc) for rr, cc, *_ in wins + blocks + defensive) *)
Listed(f, m) ==
    \E k \in 1 .. Len(f.wins \o f.blocks \o f.defensive) :
        LET e == (f.wins \o f.blocks \o f.defensive)[k]
        IN m[1] = e[1] /\ m[2] = e[2]

(* lines 364-397: the scored wins, blocks and defensive moves over all     *)
(* candidates, then the ordered and capped list to score                   *)
SuggestEnter ==
    /\ Running("suggest_moves", "enter")
    /\ LET player_color == call.ai_color
           opp == call.opp_color
           all_cand == candidate_moves(state)
           isWin(m) == try_move_is_win(state, m[1], m[2], player_color)
           isBlock(m) == ~isWin(m) /\ try_move_is_win(state, m[1], m[2], opp)
           isDef(m) == ~isWin(m) /\ ~isBlock(m)
                       /\ is_open_threat(state, m[1], m[2], opp, 3)
           w == SelectSeq(all_cand, isWin)
           b == SelectSeq(all_cand, isBlock)
           d == SelectSeq(all_cand, isDef)
           after1 == TryAll(state, all_cand, player_color)
           o == ordered_candidates(after1, player_color)
           capped == call.max_candidates # <<>>
       IN /\ stack' = SetTop(stack,
                 [Top EXCEPT
                    !.pc = "loop",
                    !.wins = [k \in 1 .. Len(w) |-> <<w[k][1], w[k][2], 10^9, "win">>],
                    !.blocks = [k \in 1 .. Len(b) |-> <<b[k][1], b[k][2], 10^8, "block">>],
                    !.defensive = [k \in 1 .. Len(d) |->
                        <<d[k][1], d[k][2],
                          10^7 + count_threat_level(state, d[k][1], d[k][2], opp) * 1000,
                          "defensive">>],
                    !.oc = CapCandidates(o.state, o.ret, player_color, opp,
                                         call.max_candidates),
                    !.i = 1])
          /\ state' = IF capped THEN TryAll(o.state, o.ret, player_color) ELSE o.state
          /\ bad_try' = (bad_try \/ TriesOccupied(state, all_cand) \/ o.bad
                         \/ (capped /\ TriesOccupied(o.state, o.ret)))
    /\ UNCHANGED <<state0, call, cutoff, prev, ui>>

(* lines 402-403, 414-415, 442-443: a move already listed is not scored *)
SuggestSkip ==
    /\ Running("suggest_moves", "loop")
    /\ Top.i <= Len(Top.oc)
    /\ Listed(Top, Top.oc[Top.i])
    /\ stack' = SetTop(stack, [Top EXCEPT !.i = @ + 1])
    /\ UNCHANGED <<state, state0, call, cutoff, bad_try, prev, ui>>

(* line 404: Easy places the move *)
SuggestPlaceEasy ==
    /\ Running("suggest_moves", "loop")
    /\ call.difficulty = "Easy"
    /\ Top.i <= Len(Top.oc)
    /\ ~Listed(Top, Top.oc[Top.i])
    /\ state' = Place(state, Top.oc[Top.i][1], Top.oc[Top.i][2], call.ai_color)
    /\ stack' = SetTop(stack, [Top EXCEPT !.pc = "easy_undo"])
    /\ UNCHANGED <<state0, call, cutoff, bad_try, prev, ui>>

(* lines 405-407: score the position, undo the move *)
SuggestUndoEasy ==
    /\ Running("suggest_moves", "easy_undo")
    /\ LET f == Top
           r == f.oc[f.i][1]
           c == f.oc[f.i][2]
           sc == evaluate(state, call.ai_color)
       IN /\ state' = Place(state, r, c, None)
          /\ stack' = SetTop(stack,
                 [f EXCEPT !.others = Append(@, <<r, c, sc, "score">>),
                           !.i = @ + 1, !.pc = "loop"])
    /\ UNCHANGED <<state0, call, cutoff, bad_try, prev, ui>>

(* lines 416-421: Medium places the move, scores it and lists the first    *)
(* ten candidate replies                                                   *)
SuggestPlaceMedium ==
    /\ Running("suggest_moves", "loop")
    /\ call.difficulty = "Medium"
    /\ Top.i <= Len(Top.oc)
    /\ ~Listed(Top, Top.oc[Top.i])
    /\ LET f == Top
           placed == Place(state, f.oc[f.i][1], f.oc[f.i][2], call.ai_color)
       IN /\ state' = placed
          /\ stack' = SetTop(stack,
                 [f EXCEPT !.pc = "reply",
                           !.my_eval = evaluate(placed, call.ai_color),
                           !.opp_best_threat = 0 - INF,
                           !.replies = Prefix(candidate_moves(placed), 10),
                           !.j = 1])
    /\ UNCHANGED <<state0, call, cutoff, bad_try, prev, ui>>

(* lines 422-425: a winning reply ends the loop, any other is placed *)
SuggestReply ==
    /\ Running("suggest_moves", "reply")
    /\ Top.j <= Len(Top.replies)
    /\ LET f == Top
           r2 == f.replies[f.j][1]
           c2 == f.replies[f.j][2]
           tried == try_move_state(state, r2, c2, call.opp_color)
       IN /\ bad_try' = (bad_try \/ state[r2][c2] # None)
          /\ IF try_move_is_win(state, r2, c2, call.opp_color)
             THEN /\ state' = tried
                  /\ stack' = SetTop(stack,
                         [f EXCEPT !.opp_best_threat = 10^8, !.pc = "medium_undo"])
             ELSE /\ state' = Place(tried, r2, c2, call.opp_color)
                  /\ stack' = SetTop(stack, [f EXCEPT !.pc = "reply_undo"])
    /\ UNCHANGED <<state0, call, cutoff, prev, ui>>

(* a faulty Medium: the value of the last reply scored is kept, not the    *)
(* greatest                                                                *)
SuggestUndoReplyLast ==
    /\ Running("suggest_moves", "reply_undo")
    /\ LET f == Top
           opp_eval == evaluate(state, call.opp_color)
       IN /\ state' = Place(state, f.replies[f.j][1], f.replies[f.j][2], None)
          /\ stack' = SetTop(stack,
                 [f EXCEPT !.opp_best_threat = opp_eval,
                           !.j = @ + 1, !.pc = "reply"])
    /\ UNCHANGED <<state0, call, cutoff, bad_try, prev, ui>>

(* lines 426-429: score the reply for the opponent, undo it *)
SuggestUndoReply ==
    /\ Running("suggest_moves", "reply_undo")
    /\ LET f == Top
           opp_eval == evaluate(state, call.opp_color)
       IN /\ state' = Place(state, f.replies[f.j][1], f.replies[f.j][2], None)
          /\ stack' = SetTop(stack,
                 [f EXCEPT !.opp_best_threat = IF opp_eval > @ THEN opp_eval ELSE @,
                           !.j = @ + 1, !.pc = "reply"])
    /\ UNCHANGED <<state0, call, cutoff, bad_try, prev, ui>>

(* lines 430-433: undo the move, score it against the best reply *)
SuggestUndoMedium ==
    /\ \/ Running("suggest_moves", "medium_undo")
       \/ Running("suggest_moves", "reply") /\ Top.j > Len(Top.replies)
    /\ LET f == Top
           r == f.oc[f.i][1]
           c == f.oc[f.i][2]
           score == f.my_eval - f.opp_best_threat
       IN /\ state' = Place(state, r, c, None)
          /\ stack' = SetTop(stack,
                 [f EXCEPT !.others = Append(@, <<r, c, score, "score">>),
                           !.i = @ + 1, !.pc = "loop"])
    /\ UNCHANGED <<state0, call, cutoff, bad_try, prev, ui>>

(* lines 444-448: Hard places the move and searches the reply *)
SuggestPlaceHard ==
    /\ Running("suggest_moves", "loop")
    /\ call.difficulty \notin {"Easy", "Medium"}
    /\ Top.i <= Len(Top.oc)
    /\ ~Listed(Top, Top.oc[Top.i])
    /\ LET f == Top
           r == f.oc[f.i][1]
           c == f.oc[f.i][2]
           placed == Place(state, r, c, call.ai_color)
       IN /\ state' = placed
          /\ IF is_win_at(placed, r, c, call.ai_color)
             THEN stack' = SetTop(stack, [f EXCEPT !.pc = "undo", !.val = WIN_SCORE])
             ELSE /\ Len(stack) < MaxStack
                  /\ stack' = Append(SetTop(stack, [f EXCEPT !.pc = "wait"]),
                                     MinimaxFrame(call.depth - 1, FALSE, f.alpha,
                                                  f.beta, placed))
    /\ UNCHANGED <<state0, call, cutoff, bad_try, prev, ui>>

(* lines 449-450: undo the move, record the searched value *)
SuggestUndoHard ==
    /\ Running("suggest_moves", "undo")
    /\ LET f == Top
           r == f.oc[f.i][1]
           c == f.oc[f.i][2]
       IN /\ state' = Place(state, r, c, None)
          /\ stack' = SetTop(stack,
                 [f EXCEPT !.others = Append(@, <<r, c, f.val, "search">>),
                           !.i = @ + 1, !.pc = "loop"])
    /\ UNCHANGED <<state0, call, cutoff, bad_try, prev, ui>>

(* a faulty return: the defensive responses are left out of the list *)
SuggestReturnNoDefensive ==
    /\ LoopOver("suggest_moves")
    /\ LET f == Top
       IN stack' = SetTop(stack,
              [f EXCEPT !.pc = "done",
                        !.result = Prefix(f.wins \o f.blocks
                                            \o SortByScore(f.others),
                                          call.top_k)])
    /\ UNCHANGED <<state, state0, call, cutoff, bad_try, prev, ui>>

(* a faulty return: the scored moves are listed ahead of the forcing ones *)
SuggestReturnScoredFirst ==
    /\ LoopOver("suggest_moves")
    /\ LET f == Top
       IN stack' = SetTop(stack,
              [f EXCEPT !.pc = "done",
                        !.result = Prefix(SortByScore(f.others) \o f.wins
                                            \o f.blocks \o f.defensive,
                                          call.top_k)])
    /\ UNCHANGED <<state, state0, call, cutoff, bad_try, prev, ui>>

(* lines 408-409, 434-435, 451-452: sort the scored moves, return the      *)
(* first top_k of the whole list                                           *)
SuggestReturn ==
    /\ LoopOver("suggest_moves")
    /\ LET f == Top
       IN stack' = SetTop(stack,
              [f EXCEPT !.pc = "done",
                        !.result = Prefix(f.wins \o f.blocks \o f.defensive
                                            \o SortByScore(f.others),
                                          call.top_k)])
    /\ UNCHANGED <<state, state0, call, cutoff, bad_try, prev, ui>>

(* ------------------- the single-player page (single_player.py) --------- *)

MaxWorkers == 2
MaxTimers == 2
MaxPosted == 2

(* the cells the player clicks, and the cells a worker may answer with *)
ClickCells == {<<7, 7>>, <<7, 8>>, <<8, 7>>}
AiCells == ClickCells \cup {<<6, 6>>}

(* __init__ (lines 19-33): the fields of the page that guard the board.    *)
(* canvas   the cells of self.board that hold a canvas item                *)
(* timers   the pending root.after(..., self.computer_move) callbacks      *)
(* workers  the worker threads that are running an engine call on          *)
(*          self.state                                                     *)
(* posted   the pending root.after(0, _apply_ai_move) callbacks, in order  *)
(* overlay  the suggestion overlay is visible                              *)
(* suggested the cells listed by the suggestion overlay                    *)
(* raced    the first handler of the main thread that read or wrote        *)
(*          self.state, or started a worker on it, while a worker was      *)
(*          running ("" if none did)                                       *)
(* declared the cell and colour of the stone a win was declared for (the   *)
(*          summary of _finalize_game is up), <<>> before that and after   *)
(*          a restart                                                      *)
(* late     a stone was placed while a win stood declared                  *)
(* cells, ai_cells  the cells the clicks of this run and the answers of    *)
(*          its workers are drawn from                                     *)
NewPage ==
    [page |-> "single",
     game_started |-> FALSE, player_color |-> None, computer_color |-> None,
     current_player |-> "black", ai_thinking |-> FALSE, canvas |-> {},
     timers |-> 0, workers |-> 0, posted |-> <<>>, overlay |-> FALSE,
     suggested |-> {}, raced |-> "", declared |-> <<>>, late |-> FALSE,
     cells |-> ClickCells, ai_cells |-> AiCells]

(* handler touches self.state: it overlaps a worker if one is running *)
Touch(handler) ==
    IF ui.workers > 0 /\ ui.raced = "" THEN handler ELSE ui.raced

Engine == <<state0, call, stack, cutoff, bad_try, prev>>

(* start_game, lines 243-261 *)
StartGame ==
    /\ ~ui.game_started
    /\ ui' = [ui EXCEPT !.game_started = TRUE]
    /\ UNCHANGED <<state, Engine>>

(* select_color and set_colors, lines 309-318 and 393-398; the overlay is  *)
(* shown by start_game and by restart_game while no colour is chosen       *)
SelectColor ==
    /\ ui.game_started
    /\ ui.player_color = None
    /\ \E color \in Colors :
          /\ (Other(color) = "black") => ui.timers < MaxTimers
          /\ ui' = [ui EXCEPT !.player_color = color,
                              !.computer_color = Other(color),
                              !.current_player = "black",
                              !.timers = IF Other(color) = "black"
                                         THEN @ + 1 ELSE @]
    /\ UNCHANGED <<state, Engine>>

(* on_board_click with place_stone and check_winner, lines 442-505 and     *)
(* 566-585; a click that the guards reject changes nothing                 *)
OnBoardClick ==
    /\ ui.game_started
    /\ ui.player_color # None
    /\ ui.current_player = ui.player_color
    /\ ~ui.ai_thinking
    /\ \E m \in ui.cells :
          /\ m \notin ui.canvas
          /\ LET mover_color == ui.current_player
                 placed == Place(state, m[1], m[2], mover_color)
                 won == is_win_at(placed, m[1], m[2], placed[m[1]][m[2]])
                 next == Other(ui.current_player)
             IN /\ state' = placed
                /\ (~won /\ next = ui.computer_color) => ui.timers < MaxTimers
                /\ ui' = [ui EXCEPT
                      !.overlay = FALSE,
                      !.suggested = {},
                      !.canvas = @ \cup {m},
                      !.raced = Touch("on_board_click"),
                      !.declared = IF won THEN <<m, placed[m[1]][m[2]]>> ELSE @,
                      !.late = @ \/ ui.declared # <<>>,
                      !.current_player = IF won THEN @ ELSE next,
                      !.timers = IF ~won /\ next = ui.computer_color
                                 THEN @ + 1 ELSE @]
    /\ UNCHANGED Engine

(* computer_move, lines 507-538: a pending timer fires; unless a move is   *)
(* being computed, a worker thread is started on self.state                *)
ComputerMove ==
    /\ ui.timers > 0
    /\ IF ui.ai_thinking
       THEN ui' = [ui EXCEPT !.timers = @ - 1]
       ELSE /\ ui.workers < MaxWorkers
            /\ ui' = [ui EXCEPT !.timers = @ - 1,
                                !.ai_thinking = TRUE,
                                !.raced = Touch("computer_move"),
                                !.workers = @ + 1]
    /\ UNCHANGED <<state, Engine>>

(* worker, lines 523-536: the engine call returns a move and the worker    *)
(* posts _apply_ai_move; the move is an empty cell of the board, or any    *)
(* cell if the board was touched while the engine ran on it                *)
WorkerDone ==
    /\ ui.workers > 0
    /\ Len(ui.posted) < MaxPosted
    /\ \E m \in ui.ai_cells :
          /\ state[m[1]][m[2]] = None \/ ui.raced # ""
          /\ ui' = [ui EXCEPT
                !.workers = @ - 1,
                !.posted = Append(@, [move |-> m,
                                      ai_color |-> IF ui.computer_color = None
                                                   THEN "white"
                                                   ELSE ui.computer_color])]
    /\ UNCHANGED <<state, Engine>>

(* _apply_ai_move, lines 540-564 *)
ApplyAiMove ==
    /\ ui.posted # <<>>
    /\ LET p == Head(ui.posted)
           m == p.move
           free == state[m[1]][m[2]] = None
           placed == Place(state, m[1], m[2], p.ai_color)
           won == free /\ is_win_at(placed, m[1], m[2], p.ai_color)
       IN /\ state' = IF free THEN placed ELSE state
          /\ ui' = [ui EXCEPT
                !.posted = Tail(@),
                !.raced = Touch("_apply_ai_move"),
                !.canvas = IF free THEN @ \cup {m} ELSE @,
                !.declared = IF won THEN <<m, p.ai_color>> ELSE @,
                !.late = @ \/ (free /\ ui.declared # <<>>),
                !.current_player =
                    IF free /\ ~won
                    THEN (IF ui.player_color = None THEN "black"
                          ELSE ui.player_color)
                    ELSE @,
                !.ai_thinking = FALSE]
    /\ UNCHANGED Engine

(* restart_game, lines 595-626: no guard; the board is cleared, the flag   *)
(* ai_thinking is reset, and the computer is scheduled if it plays black   *)
RestartGame ==
    /\ (ui.player_color # None /\ ui.computer_color = "black")
          => ui.timers < MaxTimers
    /\ state' = EmptyBoard
    /\ ui' = [ui EXCEPT
          !.canvas = {},
          !.overlay = FALSE,
          !.suggested = {},
          !.declared = <<>>,
          !.raced = Touch("restart_game"),
          !.current_player = "black",
          !.game_started = TRUE,
          !.ai_thinking = FALSE,
          !.timers = IF ui.player_color # None /\ ui.computer_color = "black"
                     THEN @ + 1 ELSE @]
    /\ UNCHANGED Engine

(* the cells compute_suggestions lists are empty cells of the board; of    *)
(* the cells of this run, any that is empty may be listed                  *)
Suggested == {m \in ui.cells : state[m[1]][m[2]] = None}

(* show_suggestions, lines 917-950: a visible overlay is hidden; otherwise *)
(* suggest_moves runs on self.state, which it leaves as it found it        *)
ShowSuggestions ==
    /\ IF ui.overlay
       THEN ui' = [ui EXCEPT !.overlay = FALSE, !.suggested = {}]
       ELSE /\ ui.game_started
            /\ ui.player_color # None
            /\ ui.current_player = ui.player_color
            /\ ~ui.ai_thinking
            /\ ui' = [ui EXCEPT !.overlay = TRUE,
                                !.suggested = Suggested,
                                !.raced = Touch("show_suggestions")]
    /\ UNCHANGED <<state, Engine>>

(* on_pick, lines 931-947, called by the overlay for one of the cells it   *)
(* lists, after the overlay has hidden itself (suggestion_overlay.py,      *)
(* _select)                                                                *)
PickSuggestion ==
    /\ ui.overlay
    /\ \E m \in ui.suggested :
          LET ok == state[m[1]][m[2]] = None /\ ui.current_player = ui.player_color
              mover_color == ui.current_player
              placed == Place(state, m[1], m[2], mover_color)
              won == ok /\ is_win_at(placed, m[1], m[2], mover_color)
              next == Other(ui.current_player)
              ai == IF ui.computer_color = None THEN "white" ELSE ui.computer_color
              timer == ok /\ ~won /\ next = ai
          IN /\ timer => ui.timers < MaxTimers
             /\ state' = IF ok THEN placed ELSE state
             /\ ui' = [ui EXCEPT
                   !.overlay = FALSE,
                   !.suggested = {},
                   !.raced = Touch("on_pick"),
                   !.canvas = IF ok THEN @ \cup {m} ELSE @,
                   !.declared = IF won THEN <<m, mover_color>> ELSE @,
                   !.late = @ \/ (ok /\ ui.declared # <<>>),
                   !.current_player = IF ok /\ ~won THEN next ELSE @,
                   !.timers = IF timer THEN @ + 1 ELSE @]
    /\ UNCHANGED Engine

SinglePlayerInit ==
    /\ state = EmptyBoard
    /\ state0 = EmptyBoard
    /\ call = [fn |-> "single_player"]
    /\ stack = <<>>
    /\ cutoff = FALSE
    /\ bad_try = FALSE
    /\ prev = <<>>
    /\ ui = NewPage

SinglePlayerNext ==
    \/ StartGame
    \/ SelectColor
    \/ OnBoardClick
    \/ ComputerMove
    \/ WorkerDone
    \/ ApplyAiMove
    \/ RestartGame
    \/ ShowSuggestions
    \/ PickSuggestion

SinglePlayer == SinglePlayerInit /\ [][SinglePlayerNext]_vars

(* ---------------- the two-player page (player_vs_player.py) ------------ *)

(* the cells the two players click: five in a row *)
RowCells == {<<7, 3>>, <<7, 4>>, <<7, 5>>, <<7, 6>>, <<7, 7>>}

(* __init__ (lines 18-28); color_overlay: the colour buttons are shown *)
NewPvpPage ==
    [page |-> "pvp",
     game_started |-> FALSE, player1_color |-> None, player2_color |-> None,
     current_player |-> "black", canvas |-> {}, color_overlay |-> FALSE,
     overlay |-> FALSE, suggested |-> {}, declared |-> <<>>, late |-> FALSE,
     cells |-> RowCells]

(* self.board, which holds a canvas item for every stone drawn *)
ItemBoard(canvas) ==
    [r \in Idx |-> [c \in Idx |-> IF <<r, c>> \in canvas THEN "item" ELSE None]]

(* check_winner, lines 294-310: along each axis the cells counted are      *)
(* those where self.board holds an item                                    *)
PvpCheckWinner(board, canvas, row, col) ==
    \E i \in 1 .. 4 :
        AxisCount(ItemBoard(canvas), row, col, "item", directions[i]) >= 5

(* start_game, lines 153-165 *)
PvpStartGame ==
    /\ ~ui.game_started
    /\ ui' = [ui EXCEPT !.game_started = TRUE, !.color_overlay = TRUE]
    /\ UNCHANGED <<state, Engine>>

(* select_color, lines 188-193 *)
PvpSelectColor ==
    /\ ui.color_overlay
    /\ \E color \in Colors :
          ui' = [ui EXCEPT !.player1_color = color,
                           !.player2_color = Other(color),
                           !.current_player = "black",
                           !.color_overlay = FALSE]
    /\ UNCHANGED <<state, Engine>>

(* the stone of the mover is drawn and recorded (place_stone, 275-292),    *)
(* then check_winner decides between declaring the win and passing the     *)
(* turn (lines 265-273 and 682-689)                                        *)
PvpMove(m) ==
    LET mover_color == ui.current_player
        placed == Place(state, m[1], m[2], mover_color)
        canvas == ui.canvas \cup {m}
        won == PvpCheckWinner(placed, canvas, m[1], m[2])
    IN /\ state' = placed
       /\ ui' = [ui EXCEPT
             !.canvas = canvas,
             !.declared = IF won THEN <<m, mover_color>> ELSE @,
             !.late = @ \/ ui.declared # <<>>,
             !.current_player = IF won THEN @ ELSE Other(@)]

(* on_board_click, lines 255-273 *)
PvpOnBoardClick ==
    /\ ui.game_started
    /\ ui.player1_color # None
    /\ \E m \in ui.cells :
          /\ m \notin ui.canvas
          /\ PvpMove(m)
    /\ UNCHANGED Engine

(* restart_game, lines 320-340 *)
PvpRestartGame ==
    /\ state' = EmptyBoard
    /\ ui' = [ui EXCEPT !.canvas = {}, !.current_player = "black",
                        !.game_started = TRUE, !.color_overlay = TRUE,
                        !.overlay = FALSE, !.suggested = {},
                        !.declared = <<>>]
    /\ UNCHANGED Engine

(* show_suggestions, lines 668-691 *)
PvpShowSuggestions ==
    /\ IF ui.overlay
       THEN ui' = [ui EXCEPT !.overlay = FALSE, !.suggested = {}]
       ELSE /\ ui.game_started
            /\ ui.player1_color # None
            /\ ui' = [ui EXCEPT !.overlay = TRUE, !.suggested = Suggested]
    /\ UNCHANGED <<state, Engine>>

(* on_pick, lines 680-689, called for a listed cell after the overlay has  *)
(* hidden itself                                                           *)
PvpPickSuggestion ==
    /\ ui.overlay
    /\ \E m \in ui.suggested :
          LET hidden == [ui EXCEPT !.overlay = FALSE, !.suggested = {}]
              mover_color == ui.current_player
              placed == Place(state, m[1], m[2], mover_color)
              canvas == ui.canvas \cup {m}
              won == PvpCheckWinner(placed, canvas, m[1], m[2])
          IN IF state[m[1]][m[2]] = None
             THEN /\ state' = placed
                  /\ ui' = [hidden EXCEPT
                        !.canvas = canvas,
                        !.declared = IF won THEN <<m, mover_color>> ELSE @,
                        !.late = @ \/ ui.declared # <<>>,
                        !.current_player = IF won THEN @ ELSE Other(@)]
             ELSE /\ state' = state
                  /\ ui' = hidden
    /\ UNCHANGED Engine

(* ------------------------- games on the two pages ---------------------- *)

(* a single-player game after eight moves: the player, black, and the      *)
(* computer each have four in a row with both ends free                    *)
EndgameBlack == {<<7, 3>>, <<7, 4>>, <<7, 5>>, <<7, 6>>}
EndgameWhite == {<<9, 3>>, <<9, 4>>, <<9, 5>>, <<9, 6>>}
EndgameBoard == MkBoard(EndgameBlack, EndgameWhite)

EndgameCells == {<<7, 7>>, <<7, 2>>, <<8, 8>>}

EndgamePage ==
    [NewPage EXCEPT !.game_started = TRUE, !.player_color = "black",
                    !.computer_color = "white", !.current_player = "black",
                    !.canvas = EndgameBlack \cup EndgameWhite,
                    !.cells = EndgameCells,
                    !.ai_cells = {<<9, 7>>, <<7, 7>>, <<5, 5>>}]

(* the two-player page in the same position, black to move *)
PvpEndgamePage ==
    [NewPvpPage EXCEPT !.game_started = TRUE, !.player1_color = "black",
                       !.player2_color = "white",
                       !.canvas = EndgameBlack \cup EndgameWhite,
                       !.cells = EndgameCells \cup {<<9, 7>>}]

(* a page as constructed, or a page late in a game *)
GamesInit ==
    /\ \/ /\ ui = [NewPage EXCEPT !.cells = {<<7, 7>>}, !.ai_cells = {<<9, 7>>}]
          /\ state = EmptyBoard
       \/ ui = NewPvpPage /\ state = EmptyBoard
       \/ ui = EndgamePage /\ state = EndgameBoard
       \/ ui = PvpEndgamePage /\ state = EndgameBoard
    /\ state0 = EmptyBoard
    /\ call = [fn |-> "games"]
    /\ stack = <<>>
    /\ cutoff = FALSE
    /\ bad_try = FALSE
    /\ prev = <<>>

SinglePage == ui.page = "single"
PvpPage == ui.page = "pvp"

GamesNext ==
    \/ SinglePage /\ StartGame
    \/ SinglePage /\ SelectColor
    \/ SinglePage /\ OnBoardClick
    \/ SinglePage /\ ComputerMove
    \/ SinglePage /\ WorkerDone
    \/ SinglePage /\ ApplyAiMove
    \/ SinglePage /\ RestartGame
    \/ SinglePage /\ ShowSuggestions
    \/ SinglePage /\ PickSuggestion
    \/ PvpPage /\ PvpStartGame
    \/ PvpPage /\ PvpSelectColor
    \/ PvpPage /\ PvpOnBoardClick
    \/ PvpPage /\ PvpRestartGame
    \/ PvpPage /\ PvpShowSuggestions
    \/ PvpPage /\ PvpPickSuggestion

Games == GamesInit /\ [][GamesNext]_vars

(* --------------- the helpers called on their own (41-95) --------------- *)

(* black has four in a column from the top edge and four in a row ending   *)
(* at the right edge; white stones close both runs                         *)
EdgeBoard ==
    MkBoard({<<0, 0>>, <<1, 0>>, <<2, 0>>, <<3, 0>>,
             <<4, 11>>, <<4, 12>>, <<4, 13>>, <<4, 14>>},
            {<<4, 0>>, <<4, 10>>, <<14, 4>>, <<9, 9>>, <<9, 10>>, <<10, 9>>,
             <<8, 8>>})

(* the rows and columns probed: in the board, just outside it, and beyond  *)
(* the reach of a negative index                                           *)
ProbeCoords ==
    {0 - BOARD_SIZE - 1, 0 - BOARD_SIZE, 0 - 1, 0, 4, BOARD_SIZE - 1, BOARD_SIZE}

ProbeCall(fn, row, col, color) ==
    [fn |-> fn, row |-> row, col |-> col, color |-> color]

(* what a helper call comes to: an exception, or the value returned *)
Raised == [raised |-> TRUE, value |-> 0]
Value(v) == [raised |-> FALSE, value |-> v]

(* is_win_at(state, row, col, color), lines 41-57: state[row][col] itself  *)
(* is never read, and every other read is guarded by the range test        *)
IsWinAtCall ==
    /\ Running("is_win_at", "enter")
    /\ stack' = SetTop(stack,
          [Top EXCEPT !.pc = "done",
                      !.result = Value(is_win_at(state, call.row, call.col,
                                                 call.color))])
    /\ UNCHANGED <<state, state0, call, cutoff, bad_try, prev, ui>>

(* count_threat_level(state, row, col, color), lines 67-95: line 72 reads  *)
(* state[row][col] unguarded                                               *)
CountThreatLevelCall ==
    /\ Running("count_threat_level", "enter")
    /\ stack' = SetTop(stack,
          [Top EXCEPT !.pc = "done",
                      !.result =
                          IF IndexOk(call.row) /\ IndexOk(call.col)
                          THEN Value(count_threat_level(state, call.row,
                                                        call.col, call.color))
                          ELSE Raised])
    /\ UNCHANGED <<state, state0, call, cutoff, bad_try, prev, ui>>

HelpersInit ==
    /\ state \in {EdgeBoard, TacticBoard}
    /\ \E fn \in {"is_win_at", "count_threat_level"},
          row \in ProbeCoords, col \in ProbeCoords, color \in Colors :
          call = ProbeCall(fn, row, col, color)
    /\ state0 = state
    /\ stack = <<PlainFrame(call.fn, state)>>
    /\ cutoff = FALSE
    /\ bad_try = FALSE
    /\ prev = <<>>
    /\ ui = NewPage

HelpersNext ==
    \/ IsWinAtCall
    \/ CountThreatLevelCall

Helpers == HelpersInit /\ [][HelpersNext]_vars

(* --------------------------- the specification ------------------------- *)

Caps == {<<n>> : n \in 0 .. MaxCap}

SmallBoards == {HoleBoard(k) : k \in 0 .. MaxHoles}

(* full boards without five in a row *)
FullBoards == {NearFull({}, flips) : flips \in SUBSET HoleFlips}

(* near-full boards with every choice of holes and flipped cells *)
PlainBoards ==
    {NearFull(holes, flips) :
        holes \in SUBSET {HoleSeq[j] : j \in 1 .. MaxHoles},
        flips \in SUBSET HoleFlips}

SparseBoards == {EmptyBoard, CornerBoard, TacticBoard}

(* the calls of ai_search explored: every argument combination on the      *)
(* near-full boards, the capped ones on the sparse boards, and uncapped     *)
(* searches where the tree is small enough to walk; each search runs        *)
(* without pruning first and then again with it (AiSearchAgain)             *)
SearchInputs ==
    {<<b, Call("ai_search", col, d, FALSE, cap)>> :
        b \in SmallBoards, col \in Colors, d \in 0 .. MaxDepth,
        cap \in Caps \cup {<<>>}}
    \cup {<<b, Call("ai_search", col, d, FALSE, cap)>> :
        b \in SparseBoards, col \in Colors, d \in 0 .. MaxDepth, cap \in Caps}
    \cup {<<b, Call("ai_search", col, d, FALSE, <<>>)>> :
        b \in {EmptyBoard, CornerBoard}, col \in Colors, d \in 1 .. MaxDepth}
    \cup {<<TacticBoard, Call("ai_search", col, 1, FALSE, <<>>)>> : col \in Colors}
    \cup {<<StarBoard, Call("ai_search", "black", 1, FALSE, <<>>)>>}
    \cup {<<SentinelBoard, Call("ai_search", "black", d, FALSE, <<0>>)>> :
            d \in {0, MaxDepth + 1}}
    \cup {<<b, Call("ai_search", col, d, FALSE, cap)>> :
        b \in FullBoards, col \in Colors, d \in 0 .. MaxDepth,
        cap \in {<<>>, <<0>>}}

Difficulties == {"Easy", "Medium", "Hard"}

(* the calls of suggest_moves explored: top_k varies on the near-full      *)
(* boards and keeps its default on the sparse ones                         *)
SuggestInputs ==
    {<<b, SuggestCall(col, diff, k, cap)>> :
        b \in SmallBoards, col \in Colors, diff \in Difficulties,
        k \in 0 .. MaxTopK, cap \in {<<>>, <<MaxCap>>}}
    \cup {<<b, SuggestCall(col, diff, TOP_K, cap)>> :
        b \in SparseBoards, col \in Colors, diff \in Difficulties, cap \in Caps}
    \cup {<<b, SuggestCall(col, diff, TOP_K, <<>>)>> :
        b \in {EmptyBoard, CornerBoard}, col \in Colors, diff \in Difficulties}
    \cup {<<TacticBoard, SuggestCall(col, "Easy", TOP_K, <<>>)>> : col \in Colors}
    \cup {<<b, SuggestCall(col, "Medium", TOP_K, <<>>)>> :
        b \in {ReplyBoard, LastCellBoard}, col \in Colors}
    \cup {<<MixedBoard, SuggestCall(col, "Easy", 1, <<0>>)>> : col \in Colors}
    \cup {<<b, SuggestCall(col, diff, k, <<>>)>> :
        b \in FullBoards, col \in Colors, diff \in Difficulties,
        k \in {0, TOP_K}}

PlainInputs ==
    {<<b, PlainCall(fn, col)>> :
        b \in PlainBoards \cup SparseBoards \cup {StarBoard, MixedBoard},
        fn \in {"ai_easy", "ordered_candidates"}, col \in Colors}

Inputs == SearchInputs \cup SuggestInputs \cup PlainInputs

Init ==
    /\ \E in \in Inputs : state = in[1] /\ call = in[2]
    /\ state0 = state
    /\ stack = <<FrameFor(call.fn, state)>>
    /\ cutoff = FALSE
    /\ bad_try = FALSE
    /\ prev = <<>>
    /\ ui = NewPage

Next ==
    \/ AiSearchEnter
    \/ AiSearchPlace
    \/ AiSearchUndo
    \/ AiSearchReturn
    \/ AiSearchAgain
    \/ AiSearchRepeat
    \/ AiEasy
    \/ OrderedCandidatesCall
    \/ SuggestEnter
    \/ SuggestSkip
    \/ SuggestPlaceEasy
    \/ SuggestUndoEasy
    \/ SuggestPlaceMedium
    \/ SuggestReply
    \/ SuggestUndoReply
    \/ SuggestUndoMedium
    \/ SuggestPlaceHard
    \/ SuggestUndoHard
    \/ SuggestReturn
    \/ MinimaxEnter
    \/ MinimaxPlace
    \/ MinimaxUndo
    \/ MinimaxReturn

Spec == Init /\ [][Next]_vars

(* ------------------------------ properties ----------------------------- *)

(* the call the caller made has returned *)
Returned == stack[1].pc = "done"

Result == stack[1].result

IsFull(board) == \A r \in Idx, c \in Idx : board[r][c] # None

(* m names a cell of the board, and the cell is empty *)
ValidMove(board, m) == InBoard(m[1], m[2]) /\ board[m[1]][m[2]] = None

AllValid(board, moves) == \A k \in 1 .. Len(moves) : ValidMove(board, moves[k])

(* the side that moves in activation f *)
FrameMover(f) ==
    IF f.fn = "minimax" /\ ~f.maximizing THEN call.opp_color ELSE call.ai_color

(* the tier of cell m for mover: 1 an immediate win, 2 an immediate win of *)
(* the opponent, 3 an open threat of length >= 3 of the opponent, 4 other  *)
Tier(board, mover, m) ==
    IF is_win_at(Place(board, m[1], m[2], mover), m[1], m[2], mover) THEN 1
    ELSE IF is_win_at(Place(board, m[1], m[2], Other(mover)), m[1], m[2], Other(mover))
         THEN 2
    ELSE IF is_open_threat(board, m[1], m[2], Other(mover), 3) THEN 3
    ELSE 4

(* C1: when ai_search (depth >= 1), suggest_moves, ai_easy or              *)
(* ordered_candidates has returned, every cell of the board holds what it  *)
(* held when the call started; and when an activation of minimax (depth    *)
(* >= 1) leaves its candidate loop, by exhaustion or by an alpha-beta      *)
(* break, the board is the one it was handed.                              *)
C1_BoardRestored ==
    /\ (Returned /\ (call.fn = "ai_search" => call.depth >= 1)) => state = state0
    /\ (LoopOver("minimax") /\ Top.depth >= 1) => state = Top.entry

(* an activation of minimax returns through an alpha-beta break, holding   *)
(* the board it was handed, its caller's stone still on it                 *)
C1_Witness ==
    /\ LoopOver("minimax")
    /\ Top.pc = "ret"
    /\ Top.depth >= 1
    /\ state = Top.entry
    /\ state # state0

(* C2: whenever some candidate cell completes five in a row for the mover, *)
(* ai_search with depth >= 1 returns a cell that completes five in a row   *)
(* for the mover.                                                          *)
C2_WinReturned ==
    (/\ Returned
     /\ call.fn = "ai_search"
     /\ call.depth >= 1
     /\ \E k \in 1 .. Len(candidate_moves(state0)) :
            Tier(state0, call.ai_color, candidate_moves(state0)[k]) = 1)
    => (Result # <<>> /\ Tier(state0, call.ai_color, Result) = 1)

(* on StarBoard black wins at (0, 14), and ai_search with depth = 1        *)
(* returns the centre, which completes no five                             *)
C2_Witness ==
    /\ Returned
    /\ call.fn = "ai_search"
    /\ call.depth = 1
    /\ call.ai_color = "black"
    /\ state0 = StarBoard
    /\ Tier(state0, "black", <<0, 14>>) = 1
    /\ Result = <<CENTER, CENTER>>
    /\ Tier(state0, "black", Result) = 4

(* the static score of each move of oc for color, and the first move with  *)
(* the greatest one                                                        *)
StaticScores(board, oc, color) ==
    [k \in 1 .. Len(oc) |-> evaluate(Place(board, oc[k][1], oc[k][2], color), color)]

StaticBest(board, oc, color) ==
    LET sc == StaticScores(board, oc, color)
    IN IF oc = <<>> THEN <<>>
       ELSE oc[CHOOSE k \in 1 .. Len(oc) :
                   /\ \A j \in 1 .. Len(oc) : sc[j] <= sc[k]
                   /\ \A j \in 1 .. (k - 1) : sc[j] < sc[k]]

(* C3: ai_search with depth = 0 is a single-ply comparison: the minimax it *)
(* calls for a root candidate never opens a loop over replies, and the     *)
(* move returned is the first root candidate with the greatest static      *)
(* evaluation.                                                             *)
C3_SinglePly ==
    (call.fn = "ai_search" /\ call.depth = 0) =>
        /\ \A n \in 1 .. Len(stack) :
               stack[n].fn = "minimax" => stack[n].pc = "enter"
        /\ Returned => Result = StaticBest(state0, stack[1].oc, call.ai_color)

(* ai_search with depth = 0 has searched replies to replies and returns a  *)
(* move other than the first one with the greatest static evaluation       *)
C3_Witness ==
    /\ Returned
    /\ call.fn = "ai_search"
    /\ call.depth = 0
    /\ Result # StaticBest(state0, stack[1].oc, call.ai_color)

(* C4: on a board with an empty cell ai_search returns a move, whatever    *)
(* the depth, the alpha-beta flag and max_candidates (0 included).         *)
C4_MoveReturned ==
    (Returned /\ call.fn = "ai_search" /\ ~IsFull(state0)) => Result # <<>>

(* with max_candidates = 0 ai_search returns None on a board with one      *)
(* stone                                                                   *)
C4_Witness ==
    /\ Returned
    /\ call.fn = "ai_search"
    /\ call.max_candidates = <<0>>
    /\ state0 = CornerBoard
    /\ Result = <<>>

(* C5: on a board without an empty cell ai_search and ai_easy return None  *)
(* and suggest_moves returns the empty list, and the board is as it was.   *)
C5_FullBoard ==
    (/\ Returned
     /\ call.fn \in {"ai_search", "ai_easy", "suggest_moves"}
     /\ IsFull(state0))
    => (Result = <<>> /\ state = state0)

(* suggest_moves has returned on a full board, asked for suggestions *)
C5_Witness ==
    /\ Returned
    /\ call.fn = "suggest_moves"
    /\ call.top_k > 0
    /\ IsFull(state0)
    /\ Result = <<>>

(* C6: a move returned by ai_search or ai_easy, and the cell of every      *)
(* entry returned by suggest_moves, is a cell of the board that was empty  *)
(* when the call started; the lists of candidate_moves and                 *)
(* ordered_candidates hold only empty cells of the board they were         *)
(* computed on.                                                            *)
C6_MovesValid ==
    /\ Returned =>
          IF call.fn \in {"ai_search", "ai_easy"}
          THEN Result = <<>> \/ ValidMove(state0, Result)
          ELSE AllValid(state0, Result)
    /\ Top.pc = "enter" => AllValid(state, candidate_moves(state))
    /\ \A n \in 1 .. Len(stack) :
          LET f == stack[n]
          IN /\ f.fn \in {"ai_search", "minimax", "suggest_moves"}
                   => AllValid(f.entry, f.oc)
             /\ (f.fn = "suggest_moves" /\ f.pc \in {"reply", "reply_undo", "medium_undo"})
                   => AllValid(Place(f.entry, f.oc[f.i][1], f.oc[f.i][2], call.ai_color),
                               f.replies)

(* suggest_moves has returned several entries on a board with stones *)
C6_Witness ==
    /\ Returned
    /\ call.fn = "suggest_moves"
    /\ Len(Result) >= 2
    /\ state0 # EmptyBoard
    /\ AllValid(state0, Result)

SearchCall == call.fn \in {"ai_search", "suggest_moves"}

OccupiedKept ==
    \A r \in Idx, c \in Idx : state0[r][c] # None => state[r][c] = state0[r][c]

(* the cell whose stone the innermost activation has placed and is about   *)
(* to remove                                                               *)
StoneInHand(f) ==
    IF f.pc = "reply_undo" THEN {f.replies[f.j]}
    ELSE IF f.pc \in {"undo", "easy_undo", "medium_undo", "reply"} THEN {f.oc[f.i]}
    ELSE {}

(* a step writes a stone into an empty cell, or empties the cell of the    *)
(* stone in hand, which was empty when the call started                    *)
C7_Step ==
    SearchCall =>
        \A r \in Idx, c \in Idx :
            state'[r][c] # state[r][c] =>
                \/ state[r][c] = None /\ state'[r][c] \in Colors
                \/ /\ state'[r][c] = None
                   /\ <<r, c>> \in StoneInHand(Top)
                   /\ state0[r][c] = None

(* C7: at every point of ai_search, minimax and suggest_moves a cell that  *)
(* was occupied when the call started holds its original colour; a stone   *)
(* is only written into a cell that is empty, a cell is only emptied by    *)
(* the undo of that stone, and try_move_is_win never runs on an occupied   *)
(* cell.                                                                   *)
C7_OccupiedCellsKept ==
    /\ [](SearchCall => (OccupiedKept /\ ~bad_try))
    /\ [][C7_Step]_vars

(* three search stones are on a board that had stones to begin with *)
C7_Witness ==
    /\ SearchCall
    /\ Len(stack) = 3
    /\ Top.pc = "undo"
    /\ state0 # EmptyBoard
    /\ OccupiedKept
    /\ state # state0

(* C8: for depth <= 2, ai_search with alpha-beta pruning returns the move  *)
(* and the best score that ai_search without pruning returned for the same *)
(* board, colours, depth and max_candidates.                               *)
C8_SameWithPruning ==
    (/\ Returned
     /\ call.fn = "ai_search"
     /\ prev # <<>>
     /\ call.use_ab
     /\ ~prev[1].use_ab
     /\ call.depth <= 2)
    => (Result = prev[1].move /\ stack[1].best_score = prev[1].score)

(* the pruned search has cut off and returned the move of the unpruned one *)
C8_Witness ==
    /\ Returned
    /\ call.fn = "ai_search"
    /\ prev # <<>>
    /\ call.use_ab
    /\ ~prev[1].use_ab
    /\ call.depth = 2
    /\ cutoff
    /\ Result # <<>>
    /\ Result = prev[1].move

(* the moves of tier t in ordered_candidates(board, mover), in its order *)
TierSeq(board, mover, t) ==
    LET inTier(m) == Tier(board, mover, m) = t
    IN SelectSeq(ordered_candidates(board, mover).ret, inTier)

(* C9: under a cap, the list an activation of ai_search, minimax or        *)
(* suggest_moves loops over is wins ++ blocks ++ defensive ++ the first    *)
(* max(0, cap - |wins| - |blocks| - |defensive|) moves of rest, the four   *)
(* tiers being those of ordered_candidates on the board it was handed.     *)
C9_CappedList ==
    (/\ Top.fn \in {"ai_search", "minimax", "suggest_moves"}
     /\ Top.pc = "loop"
     /\ Top.i = 1
     /\ call.max_candidates # <<>>)
    => LET mover == FrameMover(Top)
           wins == TierSeq(Top.entry, mover, 1)
           blocks == TierSeq(Top.entry, mover, 2)
           defensive == TierSeq(Top.entry, mover, 3)
           rest == TierSeq(Top.entry, mover, 4)
           slots == Max(0, call.max_candidates[1] - Len(wins) - Len(blocks)
                              - Len(defensive))
       IN Top.oc = wins \o blocks \o defensive
                       \o SubSeq(rest, 1, Min(slots, Len(rest)))

(* under cap 0 an activation of minimax loops over forced moves only *)
C9_Witness ==
    /\ Top.fn = "minimax"
    /\ Top.pc = "loop"
    /\ Top.i = 1
    /\ call.max_candidates = <<0>>
    /\ Top.oc # <<>>
    /\ \E k \in 1 .. Len(candidate_moves(Top.entry)) :
           Tier(Top.entry, FrameMover(Top), candidate_moves(Top.entry)[k]) = 4

(* the position of m in seq *)
IndexIn(seq, m) == CHOOSE k \in 1 .. Len(seq) : seq[k] = m

(* C10: ordered_candidates returns a permutation of candidate_moves(board) *)
(* in which the tiers come in the order wins, blocks, defensive, rest and  *)
(* the cells of one tier keep the order they have in candidate_moves.      *)
C10_TieredPermutation ==
    (Returned /\ call.fn = "ordered_candidates") =>
        LET cm == candidate_moves(state0)
            n == Len(Result)
            tier == [k \in 1 .. n |-> Tier(state0, call.ai_color, Result[k])]
            at == [k \in 1 .. n |-> IndexIn(cm, Result[k])]
        IN /\ n = Len(cm)
           /\ \A k \in 1 .. n : \E j \in 1 .. n : Result[j] = cm[k]
           /\ \A k \in 1 .. n : \E j \in 1 .. n : cm[j] = Result[k]
           /\ \A k \in 1 .. (n - 1) :
                  \/ tier[k] < tier[k + 1]
                  \/ tier[k] = tier[k + 1] /\ at[k] < at[k + 1]

(* ordered_candidates has reordered a list that holds moves of all four    *)
(* tiers                                                                   *)
C10_Witness ==
    /\ Returned
    /\ call.fn = "ordered_candidates"
    /\ Result # candidate_moves(state0)
    /\ \A t \in 1 .. 4 :
           \E k \in 1 .. Len(Result) : Tier(state0, call.ai_color, Result[k]) = t

(* the call in progress repeats the call before it: same board, colours,  *)
(* depth, pruning flag and max_candidates                                  *)
Repeated ==
    /\ call.fn = "ai_search"
    /\ prev # <<>>
    /\ prev[Len(prev)].use_ab = call.use_ab

(* C11: a second call of ai_search on the board the first call left, with *)
(* the same colours, depth, pruning flag and max_candidates, returns the   *)
(* move (and the best score) that the first call returned.                 *)
C11_SameMoveTwice ==
    (Returned /\ Repeated)
    => (/\ Result = prev[Len(prev)].move
        /\ stack[1].best_score = prev[Len(prev)].score)

(* a repeated search of depth 2 has returned the move of the first one,   *)
(* on a board with stones and empty cells                                  *)
C11_Witness ==
    /\ Returned
    /\ Repeated
    /\ call.depth = 2
    /\ Result # <<>>
    /\ Result = prev[Len(prev)].move
    /\ state0 # EmptyBoard

Cells == Idx \X Idx

Occupied(board) == {q \in Cells : board[q[1]][q[2]] # None}

Abs(x) == IF x < 0 THEN 0 - x ELSE x

(* some occupied cell other than m lies within Chebyshev distance 2 of m *)
NearStone(board, m) ==
    \E q \in Occupied(board) :
        q # m /\ Max(Abs(q[1] - m[1]), Abs(q[2] - m[2])) <= 2

(* the cells of seq come in strictly increasing row-major order *)
RowMajor(seq) ==
    \A k \in 1 .. (Len(seq) - 1) :
        seq[k][1] * BOARD_SIZE + seq[k][2]
            < seq[k + 1][1] * BOARD_SIZE + seq[k + 1][2]

(* the cells candidate_moves is to return on board *)
Wanted(board) ==
    LET empties == Cells \ Occupied(board)
        near == {m \in empties : NearStone(board, m)}
    IN IF Occupied(board) = {} THEN {<<CENTER, CENTER>>}
       ELSE IF near # {} THEN near
       ELSE empties

(* C12: on every board on which ai_search, minimax, suggest_moves, ai_easy *)
(* or ordered_candidates starts, candidate_moves returns, in strictly      *)
(* increasing row-major order (hence without duplicates), exactly the      *)
(* centre cell if the board is empty, otherwise exactly the empty cells    *)
(* with an occupied cell within Chebyshev distance 2, or all empty cells   *)
(* if there is none.                                                       *)
C12_CandidateMoves ==
    Top.pc = "enter"
    => LET cm == candidate_moves(state)
       IN /\ RowMajor(cm)
          /\ {cm[k] : k \in 1 .. Len(cm)} = Wanted(state)

(* a search has placed a stone on a sparse board: some empty cells are    *)
(* candidates, at distance 2 from every stone among them, and others are   *)
(* too far from every stone                                                *)
C12_Witness ==
    /\ Top.pc = "enter"
    /\ Len(stack) > 1
    /\ LET cm == candidate_moves(state)
       IN /\ Len(cm) >= 2
          /\ Len(cm) < Len(get_empty_cells(state))
          /\ \E k \in 1 .. Len(cm) :
                ~neighbors_exist(state, cm[k][1], cm[k][2], 1)

(* the brute-force scan: somewhere on the board five cells in a row, along *)
(* a row, a column or a diagonal, all hold color                           *)
FiveOnBoard(board, color) ==
    \E q \in Cells :
        /\ board[q[1]][q[2]] = color
        /\ \E i \in 1 .. 4 :
              \A k \in 1 .. 4 :
                  LET r == q[1] + k * directions[i][1]
                      c == q[2] + k * directions[i][2]
                  IN InBoard(r, c) /\ board[r][c] = color

(* minimax has just placed a stone and tested is_win_at on it (lines 247,  *)
(* 248, 272, 273), or holds it after the reply search returned             *)
StonePlaced == Top.fn = "minimax" /\ Top.pc = "undo"

(* ai_easy or ordered_candidates is about to run try_move_is_win over the  *)
(* candidates of the board                                                 *)
TriesAhead ==
    /\ Top.pc = "enter"
    /\ call.fn \in {"ai_easy", "ordered_candidates"}

(* is_win_at on the stone of color at m agrees with the scan of the board  *)
AgreesWithScan(board, m, color) ==
    is_win_at(board, m[1], m[2], color) <=> FiveOnBoard(board, color)

(* the statement as the specification has it, for every board: refuted by  *)
(* a stone placed next to nothing on a board that already holds a five of  *)
(* its colour, completed by the root move of ai_search                     *)
C13_EveryBoard ==
    /\ StonePlaced => AgreesWithScan(state, Top.oc[Top.i], FrameMover(Top))
    /\ TriesAhead =>
          \A k \in 1 .. Len(candidate_moves(state)), color \in Colors :
              LET m == candidate_moves(state)[k]
              IN AgreesWithScan(Place(state, m[1], m[2], color), m, color)

(* C13: on a board that holds no five in a row of a colour, after a stone  *)
(* of that colour is placed on an empty cell, is_win_at at that cell       *)
(* returns true if and only if a brute-force scan of the whole board finds *)
(* five or more contiguous stones of that colour along a row, a column or  *)
(* a diagonal.                                                             *)
C13_WinAtAgreesWithScan ==
    /\ (/\ StonePlaced
        /\ ~FiveOnBoard(Place(state, Top.oc[Top.i][1], Top.oc[Top.i][2], None),
                        FrameMover(Top)))
       => AgreesWithScan(state, Top.oc[Top.i], FrameMover(Top))
    /\ TriesAhead =>
          \A k \in 1 .. Len(candidate_moves(state)), color \in Colors :
              LET m == candidate_moves(state)[k]
              IN ~FiveOnBoard(state, color)
                 => AgreesWithScan(Place(state, m[1], m[2], color), m, color)

(* minimax has placed a stone that completes a five on a board that had    *)
(* none, in the middle of the run: is_win_at and the scan both find it     *)
C13_Witness ==
    /\ StonePlaced
    /\ ~FiveOnBoard(Place(state, Top.oc[Top.i][1], Top.oc[Top.i][2], None),
                    FrameMover(Top))
    /\ FiveOnBoard(state, FrameMover(Top))
    /\ is_win_at(state, Top.oc[Top.i][1], Top.oc[Top.i][2], FrameMover(Top))
    /\ AxisCountForward(state, Top.oc[Top.i][1], Top.oc[Top.i][2],
                        FrameMover(Top), directions[1]) < 5
    /\ AxisCount(state, Top.oc[Top.i][1], Top.oc[Top.i][2],
                 FrameMover(Top), directions[1]) >= 5

(* minimax is at a leaf: it returns evaluate of the board (lines 231-233)  *)
AtLeaf ==
    /\ Top.fn = "minimax"
    /\ Top.pc = "enter"
    /\ (Top.depth = 0 \/ candidate_moves(state) = <<>>)

(* C14: on every board that minimax evaluates, and on every board a call   *)
(* starts on, evaluate from black's perspective is the negation of         *)
(* evaluate from white's perspective.                                      *)
C14_Antisymmetric ==
    (AtLeaf \/ (Len(stack) = 1 /\ Top.pc = "enter"))
    => evaluate(state, "black") = 0 - evaluate(state, "white")

(* a leaf whose board scores differently for the two colours *)
C14_Witness ==
    /\ AtLeaf
    /\ score_color(state, "black") > 0
    /\ score_color(state, "white") > 0
    /\ evaluate(state, "black") > 0
    /\ evaluate(state, "white") = 0 - evaluate(state, "black")

(* the rank of a kind of suggestion *)
KindRank(kind) ==
    IF kind = "win" THEN 1
    ELSE IF kind = "block" THEN 2
    ELSE IF kind = "defensive" THEN 3
    ELSE 4

(* C15: in every list suggest_moves returns (Easy, Medium or Hard, any     *)
(* top_k and max_candidates) the entries of kind win come before those of  *)
(* kind block, those before the entries of kind defensive, and those       *)
(* before every entry of kind score or search.                             *)
C15_KindsInOrder ==
    (Returned /\ call.fn = "suggest_moves")
    => \A i \in 1 .. Len(Result), j \in 1 .. Len(Result) :
           i < j => KindRank(Result[i][4]) <= KindRank(Result[j][4])

(* a returned list holds a block followed by a scored move *)
C15_Witness ==
    /\ Returned
    /\ call.fn = "suggest_moves"
    /\ \E i \in 1 .. Len(Result), j \in 1 .. Len(Result) :
          /\ i < j
          /\ Result[i][4] = "block"
          /\ Result[j][4] \in {"score", "search"}

(* the cells of seq *)
CellsOf(seq) == {<<seq[k][1], seq[k][2]>> : k \in 1 .. Len(seq)}

(* the candidates of board that are an immediate win, an immediate block   *)
(* or a defensive response for mover                                       *)
Forcing(board, mover) ==
    {m \in CellsOf(candidate_moves(board)) : Tier(board, mover, m) <= 3}

(* the statement as the specification has it, for every top_k: every list *)
(* suggest_moves returns holds every candidate that is an immediate win,   *)
(* an immediate block or a defensive response, ahead of all other entries; *)
(* refuted by top_k = 1 on a board with a win and two blocks               *)
C16_ForcingMovesListed ==
    (Returned /\ call.fn = "suggest_moves")
    => /\ Forcing(state0, call.ai_color) \subseteq CellsOf(Result)
       /\ \A i \in 1 .. Len(Result), j \in 1 .. Len(Result) :
             (/\ <<Result[j][1], Result[j][2]>> \in Forcing(state0, call.ai_color)
              /\ <<Result[i][1], Result[i][2]>> \notin Forcing(state0, call.ai_color))
             => j < i

(* the immediate wins, then the immediate blocks, then the defensive       *)
(* responses among the candidates of board, each in candidate order        *)
ForcingSeq(board, mover) ==
    LET cm == candidate_moves(board)
        win(m) == Tier(board, mover, m) = 1
        block(m) == Tier(board, mover, m) = 2
        def(m) == Tier(board, mover, m) = 3
    IN SelectSeq(cm, win) \o SelectSeq(cm, block) \o SelectSeq(cm, def)

(* C16: the list suggest_moves returns for top_k >= 0 starts with the      *)
(* immediate wins, then the immediate blocks, then the defensive responses *)
(* to an open threat of length >= 3 found among candidate_moves(board),    *)
(* each with its kind, as far as top_k entries reach; no other entry comes *)
(* before them, and all of them are listed whenever top_k is at least      *)
(* their number.                                                           *)
C16_ForcingMovesFirst ==
    (Returned /\ call.fn = "suggest_moves")
    => LET F == ForcingSeq(state0, call.ai_color)
           n == Min(Len(F), call.top_k)
       IN /\ Len(Result) >= n
          /\ \A k \in 1 .. n :
                /\ <<Result[k][1], Result[k][2]>> = F[k]
                /\ KindRank(Result[k][4]) = Tier(state0, call.ai_color, F[k])
          /\ \A k \in (n + 1) .. Len(Result) :
                /\ <<Result[k][1], Result[k][2]>> \notin Forcing(state0, call.ai_color)
                /\ KindRank(Result[k][4]) = 4
          /\ call.top_k >= Len(F)
                => Forcing(state0, call.ai_color) \subseteq CellsOf(Result)

(* a returned list holds all forcing moves of the board, of two kinds,     *)
(* and scored moves after them                                             *)
C16_Witness ==
    /\ Returned
    /\ call.fn = "suggest_moves"
    /\ LET F == ForcingSeq(state0, call.ai_color)
       IN /\ Len(F) >= 2
          /\ Tier(state0, call.ai_color, F[1]) # Tier(state0, call.ai_color, F[Len(F)])
          /\ Len(Result) > Len(F)
          /\ Forcing(state0, call.ai_color) \subseteq CellsOf(Result)

(* C17: on the single-player page no handler of the main thread (board     *)
(* click, suggestion request, restart, applying a move) reads or writes    *)
(* the board, and no second worker is started on it, while a worker        *)
(* thread is running an engine call on that board.                         *)
C17_BoardAccessSerialized == ui.raced = ""

(* Restart was pressed while the computer was thinking: the board was      *)
(* cleared under the running worker, and a second worker now runs beside   *)
(* the first                                                               *)
C17_Witness ==
    /\ ui.raced = "restart_game"
    /\ ui.workers = 2
    /\ ui.ai_thinking

(* C18: is_win_at and count_threat_level, called with a row or a column    *)
(* outside 0 .. BOARD_SIZE - 1, raise an error and return no result.       *)
C18_InvalidCoordinatesRejected ==
    (/\ Returned
     /\ call.fn \in {"is_win_at", "count_threat_level"}
     /\ ~InBoard(call.row, call.col))
    => Result.raised

(* is_win_at reports a win at row -1, outside the board, from the four     *)
(* black stones below it                                                   *)
C18_Witness ==
    /\ Returned
    /\ call.fn = "is_win_at"
    /\ call.row = 0 - 1
    /\ call.col = 0
    /\ call.color = "black"
    /\ state = EdgeBoard
    /\ Result = Value(TRUE)

(* a stone of color on cell m of board completes five in a row *)
WinsAt(board, m, color) ==
    is_win_at(Place(board, m[1], m[2], color), m[1], m[2], color)

(* C19: ai_easy returns None exactly when candidate_moves(board) is empty; *)
(* otherwise it returns a candidate, one that wins at once for the mover   *)
(* whenever some candidate does, and else one that would win at once for   *)
(* the opponent whenever some candidate does.                              *)
C19_EasyMove ==
    (Returned /\ call.fn = "ai_easy")
    => LET cand == CellsOf(candidate_moves(state0))
           win == {m \in cand : WinsAt(state0, m, call.ai_color)}
           block == {m \in cand : WinsAt(state0, m, call.opp_color)}
       IN /\ (Result = <<>>) <=> (cand = {})
          /\ Result # <<>> => Result \in cand
          /\ win # {} => Result \in win
          /\ (win = {} /\ block # {}) => Result \in block

(* ai_easy has no winning cell and returns the cell that stops the         *)
(* opponent's five, on a board with many other candidates                  *)
C19_Witness ==
    /\ Returned
    /\ call.fn = "ai_easy"
    /\ Result # <<>>
    /\ \A k \in 1 .. Len(candidate_moves(state0)) :
          ~WinsAt(state0, candidate_moves(state0)[k], call.ai_color)
    /\ WinsAt(state0, Result, call.opp_color)
    /\ Len(candidate_moves(state0)) > MaxHoles

(* the greatest member of a non-empty sequence of integers *)
MaxOf(seq) == CHOOSE v \in {seq[k] : k \in 1 .. Len(seq)} :
                  \A k \in 1 .. Len(seq) : seq[k] <= v

(* the first index at which seq holds v *)
FirstAt(seq, v) == CHOOSE k \in 1 .. Len(seq) :
                       seq[k] = v /\ \A j \in 1 .. (k - 1) : seq[j] # v

(* C20: ai_search returns the first root candidate, in the order of the    *)
(* ordered and capped list, whose minimax score is the greatest of the     *)
(* scores of the root candidates examined, and best_score is that score;   *)
(* with no candidate examined it returns None.                             *)
C20_FirstBestReturned ==
    (Returned /\ call.fn = "ai_search")
    => LET f == stack[1]
       IN IF f.vals = <<>> THEN Result = <<>>
          ELSE /\ Result = f.oc[FirstAt(f.vals, MaxOf(f.vals))]
               /\ f.best_score = MaxOf(f.vals)

(* with max_candidates = 0 and depth = 3 the only root candidate examined *)
(* scores -10^9, the initial best_score, and the search returns None       *)
C20_Witness ==
    /\ Returned
    /\ call.fn = "ai_search"
    /\ call.depth = MaxDepth + 1
    /\ state0 = SentinelBoard
    /\ stack[1].oc = << <<8, 6>> >>
    /\ stack[1].vals = <<0 - INF>>
    /\ Result = <<>>

(* minimax is about to try the candidate Top.oc[Top.i] *)
AtCandidate ==
    /\ Running("minimax", "loop")
    /\ Top.i <= Len(Top.oc)

(* the step minimax takes at a candidate, and the step it takes with the   *)
(* stone of a scored candidate on the board                                *)
C21_Step ==
    /\ AtCandidate =>
          LET f == Top
              m == f.oc[f.i]
              top == stack'[Len(stack')]
          IN /\ state' = Place(state, m[1], m[2], FrameMover(f))
             /\ IF WinsAt(state, m, FrameMover(f))
                THEN /\ Len(stack') = Len(stack)
                     /\ top.pc = "undo"
                     /\ top.val = IF f.maximizing THEN 100000 ELSE 0 - 100000
                ELSE /\ Len(stack') = Len(stack) + 1
                     /\ top.fn = "minimax"
                     /\ top.pc = "enter"
                     /\ top.depth = f.depth - 1
                     /\ top.maximizing = ~f.maximizing
    /\ StonePlaced =>
          LET m == Top.oc[Top.i]
              top == stack'[Len(stack')]
          IN /\ state' = Place(state, m[1], m[2], None)
             /\ Len(stack') = Len(stack)
             /\ \/ top.pc = "ret"
                \/ top.pc = "loop" /\ top.i = Top.i + 1

(* C21: in minimax a candidate that completes five in a row for the side   *)
(* to move is scored +100000 at a maximizing node and -100000 at a         *)
(* minimizing node with no recursive call below it; every other candidate  *)
(* is handed to a recursive call with depth - 1 and the opposite           *)
(* maximizing flag; and the stone of a scored candidate is removed before  *)
(* the next candidate is tried.                                            *)
C21_WinScoredAtOnce == [][C21_Step]_vars

(* a minimizing node holds a stone that completes five for the opponent,   *)
(* scored -100000                                                          *)
C21_Witness ==
    /\ StonePlaced
    /\ ~Top.maximizing
    /\ Top.val = 0 - WIN_SCORE
    /\ is_win_at(state, Top.oc[Top.i][1], Top.oc[Top.i][2], call.opp_color)
    /\ Top.i < Len(Top.oc)

(* the four directions a window of five cells runs in *)
WindowDirs == {<<0, 1>>, <<1, 0>>, <<1, 1>>, <<1, -1>>}

(* the table value of the window of five cells that starts at (r, c) and   *)
(* runs in direction (dr, dc)                                              *)
WindowValue(board, color, r, c, dr, dc) ==
    LET cell(k) == board[r + k * dr][c + k * dc]
        own == Cardinality({k \in 0 .. 4 : cell(k) = color})
        opp == Cardinality({k \in 0 .. 4 : cell(k) = Other(color)})
        before == /\ InBoard(r - dr, c - dc)
                  /\ board[r - dr][c - dc] = None
        after == /\ InBoard(r + 5 * dr, c + 5 * dc)
                 /\ board[r + 5 * dr][c + 5 * dc] = None
    IN IF opp > 0 THEN 0
       ELSE IF own = 5 THEN 100000
       ELSE IF own = 4 THEN (IF before \/ after THEN 10000 ELSE 3000)
       ELSE IF own = 3 THEN (IF before /\ after THEN 1000 ELSE 200)
       ELSE IF own = 2 THEN (IF before \/ after THEN 50 ELSE 0)
       ELSE 0

(* the sum of the table values of the windows in direction (dr, dc) that   *)
(* start in row r at columns c, c+1, ...                                   *)
RECURSIVE RowWindowSum(_, _, _, _, _, _)
RowWindowSum(board, color, dr, dc, r, c) ==
    IF c >= BOARD_SIZE THEN 0
    ELSE (IF InBoard(r + 4 * dr, c + 4 * dc)
          THEN WindowValue(board, color, r, c, dr, dc) ELSE 0)
         + RowWindowSum(board, color, dr, dc, r, c + 1)

(* ... and of those that start in rows r, r+1, ...                         *)
RECURSIVE WindowSum(_, _, _, _, _)
WindowSum(board, color, dr, dc, r) ==
    IF r >= BOARD_SIZE THEN 0
    ELSE RowWindowSum(board, color, dr, dc, r, 0)
         + WindowSum(board, color, dr, dc, r + 1)

TableScore(board, color) ==
    WindowSum(board, color, 0, 1, 0) + WindowSum(board, color, 1, 0, 0)
    + WindowSum(board, color, 1, 1, 0) + WindowSum(board, color, 1, -1, 0)

(* C22: on every board that minimax evaluates, score_color of either       *)
(* colour is the sum, over every window of five consecutive cells of the   *)
(* rows, the columns and the diagonals of both families, each window once, *)
(* of: 0 if the window holds an opponent stone, else 100000 for five own   *)
(* stones, 10000 for four with either window-adjacent cell empty and 3000  *)
(* otherwise, 1000 for three with both window-adjacent cells empty and 200 *)
(* otherwise, 50 for two with a window-adjacent cell empty, else 0.        *)
C22_ScoreIsWindowSum ==
    AtLeaf => \A color \in Colors :
        score_color(state, color) = TableScore(state, color)

(* an evaluated board with an open three on a diagonal and a three that is *)
(* not open elsewhere                                                      *)
C22_Witness ==
    /\ AtLeaf
    /\ \E color \in Colors, r \in Idx, c \in Idx, d \in {<<1, 1>>, <<1, -1>>} :
          /\ InBoard(r + 4 * d[1], c + 4 * d[2])
          /\ WindowValue(state, color, r, c, d[1], d[2]) = 1000
    /\ \E color \in Colors, r \in Idx, c \in Idx, d \in WindowDirs :
          /\ InBoard(r + 4 * d[1], c + 4 * d[2])
          /\ WindowValue(state, color, r, c, d[1], d[2]) = 200
    /\ score_color(state, call.ai_color) = TableScore(state, call.ai_color)

(* C23: in the list suggest_moves returns the scores never increase from   *)
(* one entry to the next: wins carry 10^9, blocks 10^8, defensive entries  *)
(* 10^7 + 1000 * threat_level, and every score or search entry carries a   *)
(* score below all of them.                                                *)
C23_ScoresNonIncreasing ==
    (Returned /\ call.fn = "suggest_moves")
    => /\ \A k \in 1 .. Len(Result) - 1 : Result[k][3] >= Result[k + 1][3]
       /\ \A k \in 1 .. Len(Result) :
             /\ Result[k][4] = "win" => Result[k][3] = 10^9
             /\ Result[k][4] = "block" => Result[k][3] = 10^8
             /\ Result[k][4] = "defensive" =>
                   Result[k][3] = 10^7 + 1000 * count_threat_level(
                       state0, Result[k][1], Result[k][2], call.opp_color)
             /\ Result[k][4] \in {"score", "search"} => Result[k][3] < 10^7

(* a returned list in which a defensive entry is followed by a defensive   *)
(* entry of a greater threat level, and a scored entry comes last          *)
C23_Witness ==
    /\ Returned
    /\ call.fn = "suggest_moves"
    /\ \E k \in 1 .. Len(Result) - 1 :
          /\ Result[k][4] = "defensive"
          /\ Result[k + 1][4] = "defensive"
          /\ Result[k][3] < Result[k + 1][3]
    /\ Result[Len(Result)][4] = "score"

(* the replies Medium looks at after the candidate m: the first at most    *)
(* ten candidate cells of the board with m placed                          *)
Replies(board, m, player) ==
    Prefix(candidate_moves(Place(board, m[1], m[2], player)), 10)

(* the best opponent reply value after the candidate m *)
BestReply(board, m, player) ==
    LET placed == Place(board, m[1], m[2], player)
        replies == Replies(board, m, player)
        vals == {evaluate(Place(placed, replies[k][1], replies[k][2], Other(player)),
                          Other(player)) : k \in 1 .. Len(replies)}
    IN IF \E k \in 1 .. Len(replies) : WinsAt(placed, replies[k], Other(player))
       THEN 10^8
       ELSE CHOOSE v \in vals : \A w \in vals : v >= w

(* the candidates Medium has scored when suggest_moves returns *)
MediumScored ==
    IF Returned /\ call.fn = "suggest_moves" /\ call.difficulty = "Medium"
    THEN stack[1].others ELSE <<>>

RunOffsets(board, row, col, color, d) ==
    LET with == Place(board, row, col, color)
        lo(k) == IF k < 0 THEN k ELSE 0
        hi(k) == IF k < 0 THEN 0 ELSE k
    IN {k \in (0 - BOARD_SIZE) .. BOARD_SIZE :
          \A j \in lo(k) .. hi(k) :
              /\ InBoard(row + j * d[1], col + j * d[2])
              /\ with[row + j * d[1]][col + j * d[2]] = color}

(* the cell at offset k from (row, col) along d is an empty cell of board *)
EmptyAt(board, row, col, d, k) ==
    /\ InBoard(row + k * d[1], col + k * d[2])
    /\ board[row + k * d[1]][col + k * d[2]] = None

OpenRun(board, row, col, color, d, min_count) ==
    LET run == RunOffsets(board, row, col, color, d)
        first == CHOOSE k \in run : \A j \in run : k <= j
        last == CHOOSE k \in run : \A j \in run : k >= j
    IN /\ Cardinality(run) >= min_count
       /\ \/ EmptyAt(board, row, col, d, first - 1)
          \/ EmptyAt(board, row, col, d, last + 1)

(* the run lengths asked for *)
MinCounts == {1, 3, 4, 5}

(* ordered_candidates has sorted the candidates of the board state0, the   *)
(* defensive ones by is_open_threat                                        *)
Ordered ==
    /\ call.fn = "ordered_candidates"
    /\ Returned

(* C25: is_open_threat(board, row, col, color, min_count) is true exactly  *)
(* when the cell is empty and, along at least one of the four axes, the    *)
(* contiguous run of color through (row, col), counting the hypothetical   *)
(* stone, has length >= min_count and the cell of the board immediately    *)
(* beyond at least one end of that run is empty; it is false for every     *)
(* occupied cell.                                                          *)
C25_OpenThreat ==
    Ordered =>
        \A row \in Idx, col \in Idx, color \in Colors, min_count \in MinCounts :
            is_open_threat(state0, row, col, color, min_count)
            <=> /\ state0[row][col] = None
                /\ \E d \in WindowDirs :
                      OpenRun(state0, row, col, color, d, min_count)

(* a board with an empty cell that is an open threat through one open end  *)
(* only, an empty cell whose run of three is closed at both ends, and an   *)
(* occupied cell that would be an open threat if it were empty             *)
C25_Witness ==
    /\ Ordered
    /\ \E row \in Idx, col \in Idx, color \in Colors :
          /\ is_open_threat(state0, row, col, color, 3)
          /\ ~is_open_threat_both(state0, row, col, color, 3)
    /\ \E row \in Idx, col \in Idx, color \in Colors, d \in WindowDirs :
          /\ state0[row][col] = None
          /\ Cardinality(RunOffsets(state0, row, col, color, d)) >= 3
          /\ ~is_open_threat(state0, row, col, color, 3)
    /\ \E row \in Idx, col \in Idx, color \in Colors :
          /\ state0[row][col] # None
          /\ ~is_open_threat(state0, row, col, color, 3)
          /\ is_open_threat(Place(state0, row, col, None), row, col, color, 3)

(* the stones on the board that were not there when the call started *)
SearchStones == {m \in Idx \X Idx : state[m[1]][m[2]] # state0[m[1]][m[2]]}

DeepSearch == call.fn = "ai_search" /\ call.depth >= 1

(* the work an activation has left: the candidates it has not finished,    *)
(* and within a candidate the place, the wait for the call below and the   *)
(* undo; an activation that has not yet listed its candidates has more     *)
(* left than any that has                                                  *)
Work(f) ==
    IF f.pc = "enter" THEN 4 * (BOARD_SIZE * BOARD_SIZE + 2)
    ELSE IF f.pc = "loop" THEN 4 * (Len(f.oc) + 1 - f.i) + 3
    ELSE IF f.pc = "wait" THEN 4 * (Len(f.oc) + 1 - f.i) + 2
    ELSE IF f.pc = "undo" THEN 4 * (Len(f.oc) + 1 - f.i) + 1
    ELSE IF f.pc = "ret" THEN 1
    ELSE 0

(* the call stack t has less work left than s: they agree up to some       *)
(* activation, which has less left in t                                    *)
LessWork(t, s) ==
    \E p \in 1 .. Min(Len(s), Len(t)) :
        /\ \A q \in 1 .. (p - 1) : Work(t[q]) = Work(s[q])
        /\ Work(t[p]) < Work(s[p])

(* the activation on top of the stack has a next step to take *)
CanStep ==
    \/ Top.pc \in {"enter", "undo", "ret"}
    \/ /\ Top.pc = "loop"
       /\ \/ Top.i > Len(Top.oc)
          \/ Len(stack) < MaxStack
          \/ Top.fn = "minimax" /\ WinsAt(state, Top.oc[Top.i], FrameMover(Top))

(* C26: for depth >= 1 every ai_search call terminates, and at no moment   *)
(* during the call are more than depth search-placed stones on the board   *)
(* at once: the recursion never descends more than depth plies below the   *)
(* root position. Termination: a call that has not returned always has a   *)
(* next step, every step leaves less work on a call stack of at most       *)
(* depth + 1 activations, and the work left is never negative.             *)
C26_TerminatesWithinDepth ==
    /\ [](DeepSearch =>
            /\ Cardinality(SearchStones) <= call.depth
            /\ Len(stack) <= call.depth + 1
            /\ \A p \in 1 .. Len(stack) : Work(stack[p]) >= 0
            /\ Returned \/ CanStep)
    /\ [][(DeepSearch /\ ~Returned) => LessWork(stack', stack)]_vars

(* a search of the greatest depth explored stands at a leaf with depth     *)
(* stones placed                                                           *)
C26_Witness ==
    /\ DeepSearch
    /\ call.depth = MaxDepth
    /\ call.max_candidates = <<>>
    /\ AtLeaf
    /\ Top.depth = 0
    /\ Cardinality(SearchStones) = call.depth
    /\ Len(stack) = call.depth + 1

(* the empty cells of board that neighbors_exist keeps at distance 2 *)
NearEmpties(board) ==
    {m \in Cells \ Occupied(board) : neighbors_exist(board, m[1], m[2], 2)}

(* C27: on every board a call or a search node starts on, candidate_moves  *)
(* returns the empty list if and only if the board has no empty cell; on a *)
(* board with at least one stone and at least one empty cell some empty    *)
(* cell lies within Chebyshev distance 2 of a stone, so that the fallback  *)
(* to all empty cells is taken only when there is none.                    *)
C27_EmptyOnlyWhenFull ==
    Top.pc = "enter"
    => /\ candidate_moves(state) = <<>> <=> IsFull(state)
       /\ (Occupied(state) # {} /\ ~IsFull(state)) => NearEmpties(state) # {}
       /\ (Occupied(state) # {} /\ NearEmpties(state) = {})
             => get_empty_cells(state) = <<>>

(* a search node starts on a board that the search has filled, and gets no *)
(* candidate                                                               *)
C27_Witness ==
    /\ Top.pc = "enter"
    /\ Len(stack) > 1
    /\ ~IsFull(state0)
    /\ IsFull(state)
    /\ candidate_moves(state) = <<>>

(* max_candidates is absent or at least 1 *)
CapAtLeastOne ==
    /\ SearchCall
    /\ call.max_candidates = <<>> \/ call.max_candidates[1] >= 1

Sentinels == {INF, 0 - INF}

(* no value handed back by minimax, and no running value of a node that    *)
(* has examined a candidate, is a sentinel                                 *)
NoSentinel ==
    \A p \in 1 .. Len(stack) :
        LET f == stack[p]
        IN /\ (f.fn \in {"ai_search", "minimax", "suggest_moves"} /\ f.pc = "undo")
                 => f.val \notin Sentinels
           /\ (f.fn = "minimax" /\ (f.pc = "ret" \/ (f.pc = "loop" /\ f.i > 1)))
                 => f.value \notin Sentinels

(* where the value a minimax node hands back comes from: a leaf hands back *)
(* evaluate of its board for the searching colour; a node folds the value  *)
(* of a candidate into its running value by keeping one of the two, the    *)
(* candidate's when the running value is still the initial one; and a node *)
(* that returns has examined a candidate and hands back its running value  *)
C28_Step ==
    /\ (Top.fn = "minimax" /\ Len(stack') < Len(stack)) =>
          LET back == stack'[Len(stack')].val
          IN IF Top.pc = "enter"
             THEN back = evaluate(state, call.ai_color)
             ELSE /\ Top.pc = "ret" \/ Top.i > 1
                  /\ Len(Top.oc) >= 1
                  /\ back = Top.value
    /\ Running("minimax", "undo") =>
          LET value == stack'[Len(stack')].value
          IN /\ Top.val \in {WIN_SCORE, 0 - WIN_SCORE}
                \/ Top.val \notin Sentinels
             /\ value \in {Top.value, Top.val}
             /\ Top.i = 1 => value = Top.val

(* C28: when max_candidates is absent or >= 1, minimax never returns its   *)
(* initial sentinel values -10^9 or +10^9: every returned value is         *)
(* +100000, -100000 or the evaluate(board, mover_color) of some board      *)
(* reached in the search, because every non-leaf node examines at least    *)
(* one candidate.                                                          *)
C28_NoSentinelReturned ==
    /\ [](CapAtLeastOne => NoSentinel)
    /\ [][CapAtLeastOne => C28_Step]_vars

(* under a cap of 1 a node that is no leaf is about to return the value of *)
(* the one candidate it examined                                           *)
C28_Witness ==
    /\ SearchCall
    /\ call.max_candidates = <<1>>
    /\ LoopOver("minimax")
    /\ Len(Top.oc) = 1
    /\ Top.value \notin Sentinels
    /\ Top.value \notin {WIN_SCORE, 0 - WIN_SCORE}

(* ------------------------- C29: the win of a player -------------------- *)

(* the stone of the win declared last, and the colour of its mover *)
DeclaredCell == ui.declared[1]
DeclaredColor == ui.declared[2]

(* the stone is part of five or more contiguous stones of the colour *)
OwnFive(m, color) == is_win_at(state, m[1], m[2], color)

(* C29: on the two-player page, when a win has been declared for a move,   *)
(* the stone of that move is part of a line of five or more contiguous     *)
(* stones that all have the colour of the mover.                           *)
C29_WinOnlyForOwnFive ==
    (PvpPage /\ ui.declared # <<>>) => OwnFive(DeclaredCell, DeclaredColor)

(* a win is declared on the two-player page for the stone that fills the   *)
(* row of five, a row that holds stones of the other colour too            *)
C29_Witness ==
    /\ PvpPage
    /\ ui.declared # <<>>
    /\ DeclaredCell \in RowCells
    /\ RowCells \subseteq ui.canvas
    /\ \E m \in RowCells : state[m[1]][m[2]] = Other(DeclaredColor)
    /\ ~OwnFive(DeclaredCell, DeclaredColor)

(* ------------------------- C30: after the win -------------------------- *)

(* C30: on both pages, from the declaration of a win to the restart of the *)
(* game no stone is placed on the board, be it by a click on the board, by *)
(* the pick of a suggestion or by the computer.                            *)
C30_NoStoneAfterWin == ~ui.late

(* after the win of the player on the single-player page a stone has been  *)
(* placed, and the game has not been restarted since                       *)
C30_Witness ==
    /\ SinglePage
    /\ ui.late
    /\ ui.declared # <<>>
    /\ DeclaredColor = ui.player_color

(* the same on the two-player page *)
C30_LatePvp == PvpPage /\ ui.late /\ ui.declared # <<>>

====
